---- MODULE Spec2Model ----
(***************************************************************************)
(* Model of the cloudflow manifest resolver and reachability engine.       *)
(*                                                                         *)
(* Python strings are modelled as sequences of lexical atoms: every        *)
(* punctuation mark the code's regular expressions and split() calls look  *)
(* at is an atom of its own ("${", "}", ":", ".", ",", "/", ...), and a    *)
(* run of other characters (a name) is one atom, or several when one name  *)
(* is a prefix of another ('s3' and 's3express').  An atom "abc" stands    *)
(* for a Python substring that contains none of the punctuation.           *)
(***************************************************************************)
EXTENDS Integers, Sequences, FiniteSets, TLC

VARIABLES
    plugin_info,        \* PluginExtractedInfoCls.plugin_info (a defaultdict)
    api_call,           \* inputs of the last analyse_api_permissions call
    api_result,         \* what that call returned, or the exception it raised
    manifest_perm_res_dict, \* PermissionsIdentifierCls.perm_res_dict
    handler_source,     \* the handler under analysis: an API call and its file
    res_call,           \* inputs of the last analyse_resource_level_permissions call
    res_result,         \* what that call returned, or the exception it raised
    arg_verdicts,       \* what its loop did with each entry of resources_info
    yaml_file,          \* the manifest on disk: its scalars in document order
    root,               \* YAMLResolverCls.root, the composed node tree
    ref_dict,           \* YAMLResolverCls.ref_dict
    visit_pos,          \* the scalar _visit processes next
    visited,            \* every _process_value call of _visit: input, ref_dict, result
    resolved_yaml,      \* what resolve_yaml returned
    walker,             \* CodeSynthesisInjectionCls: the attributes set by __init__
    body,               \* the statement list pre_body_name is walking
    walk_state,         \* pre_body_name's position: copy of the list, i, counter, __api_to_process
    call_log,           \* every _check_api_permissions call of pre_Call
    injected,           \* the (statement, handler) pairs a handler call was inserted for
    iam_config,         \* the manifest's provider.iam and provider.iamRoleStatements
    identifier,         \* PermissionsIdentifierCls: perm_dict, perm_res_dict, constructor position
    lib_call,           \* the last call of a library function: its name and inputs
    lib_result          \* what that call returned

\* The state of the service-level analysis, of the resource-level analysis
\* and of the manifest resolver
apiVars == <<plugin_info, api_call, api_result>>
resVars == <<manifest_perm_res_dict, handler_source, res_call, res_result, arg_verdicts>>
yamlVars == <<yaml_file, root, ref_dict, visit_pos, visited, resolved_yaml>>

walkVars == <<walker, body, walk_state, call_log, injected>>

\* The state of the permission index under construction, and of the calls
\* of the library functions
permVars == <<iam_config, identifier>>
libVars == <<lib_call, lib_result>>

vars == <<apiVars, resVars, yamlVars, walkVars, permVars, libVars>>

(***************************************************************************)
(* String helpers (Python str methods on atom sequences)                   *)
(***************************************************************************)
Punct == {"${", "#{", "}", "{", ":", ".", ",", "/", " ", "-", "*", "(", ")",
          "[", "]", "'"}

\* str.startswith
startswith(s, p) == Len(p) <= Len(s) /\ SubSeq(s, 1, Len(p)) = p

\* str.endswith
endswith(s, p) == Len(p) <= Len(s) /\ SubSeq(s, Len(s) - Len(p) + 1, Len(s)) = p

\* Positions of atom a in s
Positions(s, a) == {i \in 1..Len(s) : s[i] = a}

SetMin(S) == CHOOSE x \in S : \A y \in S : x <= y
SetMax(S) == CHOOSE x \in S : \A y \in S : x >= y

\* 'a' in s
Contains(s, a) == Positions(s, a) # {}

\* The least element of a set of positions, 0 for the empty set
MinOrZero(S) == IF S = {} THEN 0 ELSE SetMin(S)

\* s.split(sep): the list of the pieces between the occurrences of sep;
\* SplitAt is given the position i of the first occurrence (0: none)
RECURSIVE split(_, _)
SplitAt(s, sep, i) ==
    IF i = 0 THEN <<s>>
    ELSE <<SubSeq(s, 1, i - 1)>> \o split(SubSeq(s, i + 1, Len(s)), sep)

split(s, sep) == SplitAt(s, sep, MinOrZero(Positions(s, sep)))

\* s.strip(): leading and trailing blanks removed
RECURSIVE strip(_)
strip(s) ==
    IF s # <<>> /\ s[1] = " " THEN strip(Tail(s))
    ELSE IF s # <<>> /\ s[Len(s)] = " " THEN strip(SubSeq(s, 1, Len(s) - 1))
    ELSE s

\* First position at which the atom sequence pat occurs in s, 0 when absent
FindSub(s, pat) ==
    MinOrZero({i \in 1..(Len(s) - Len(pat) + 1) : SubSeq(s, i, i + Len(pat) - 1) = pat})

\* re.sub / str.replace of every occurrence of pat (a literal) by val;
\* ReplaceAt is given the position i of the first occurrence (0: none)
RECURSIVE replace(_, _, _)
ReplaceAt(s, pat, val, i) ==
    IF pat = <<>> \/ i = 0 THEN s
    ELSE SubSeq(s, 1, i - 1) \o val \o replace(SubSeq(s, i + Len(pat), Len(s)), pat, val)

replace(s, pat, val) == ReplaceAt(s, pat, val, FindSub(s, pat))

\* The elements of a sequence
Range(seq) == {seq[i] : i \in 1..Len(seq)}

(***************************************************************************)
(* Value trees.  A dictionary loaded from YAML (BaseLoader: every scalar   *)
(* is a string) is modelled by its leaves: a function from the paths of    *)
(* keys that lead to a scalar to that scalar.  d[k1][k2]... succeeds with  *)
(* a string exactly for those paths; a shorter path yields a dictionary,   *)
(* any other path raises KeyError or TypeError.                            *)
(***************************************************************************)
EmptyTree == [p \in {} |-> <<>>]

\* The traversal `for key in path: res_value = res_value[key]` and the use
\* of the result as a string: ok is FALSE when a key is missing or the
\* value reached is not a string
Lookup(tree, path) ==
    IF path \in DOMAIN tree THEN [ok |-> TRUE, value |-> tree[path]]
    ELSE [ok |-> FALSE, value |-> <<>>]

(***************************************************************************)
(* customresolverreslib: check_if_resolved, resolve_value_from_yaml        *)
(***************************************************************************)
\* check_if_resolved on a string: the regular expression \$\{ finds nothing
check_if_resolved(input) == ~Contains(input, "${")

\* check_if_resolved on an iterable of strings
check_if_resolved_all(inputs) == \A elem \in inputs : check_if_resolved(elem)

\* [\w\.\-]
IsPathAtom(a) == a \notin Punct \/ a \in {".", "-"}

\* End of the match of \$\{self:([\w\.\-]+?)\} that starts at i, 0 if none
SelfSpanEnd(s, i) ==
    MinOrZero({j \in (i + 4)..Len(s) :
                  /\ s[i] = "${" /\ s[i + 1] = "self" /\ s[i + 2] = ":"
                  /\ s[j] = "}"
                  /\ \A k \in (i + 3)..(j - 1) : IsPathAtom(s[k])})

\* unres_val_reg_exp.findall: the dotted paths of the ${self:...} spans, in
\* order; i is the start of the first span (0: none) and j its end
RECURSIVE findall_self(_)
SpanThenRest(s, i, j) ==
    <<SubSeq(s, i + 3, j - 1)>> \o findall_self(SubSeq(s, j + 1, Len(s)))

FindallFrom(s, i) == IF i = 0 THEN <<>> ELSE SpanThenRest(s, i, SelfSpanEnd(s, i))

findall_self(s) == FindallFrom(s, MinOrZero({i \in 1..Len(s) : SelfSpanEnd(s, i) # 0}))

\* Lines 49-57: the substring is looked up and, when found, substituted
\* wherever it occurs; otherwise the value is left (KeyError and TypeError
\* are caught)
SubstituteOne(unres_value, substring, res) ==
    IF res.ok
    THEN replace(unres_value, <<"${", "self", ":">> \o substring \o <<"}">>, res.value)
    ELSE unres_value

\* The loop over the substrings
RECURSIVE SubstituteAll(_, _, _)
SubstituteAll(unres_value, substrings, config_dict) ==
    IF substrings = <<>> THEN unres_value
    ELSE SubstituteAll(SubstituteOne(unres_value, Head(substrings),
                                     Lookup(config_dict, split(Head(substrings), "."))),
                       Tail(substrings), config_dict)

\* resolve_value_from_yaml, given the spans findall finds in unres_value
RECURSIVE resolve_value_from_yaml(_, _, _)
ResolveRound(unres_value, substrings, config_dict, max_recursion) ==
    IF substrings # <<>> /\ max_recursion # 0
    THEN resolve_value_from_yaml(SubstituteAll(unres_value, substrings, config_dict),
                                 config_dict, max_recursion - 1)
    ELSE unres_value

resolve_value_from_yaml(unres_value, config_dict, max_recursion) ==
    ResolveRound(unres_value, findall_self(unres_value), config_dict, max_recursion)

\* Default of resolve_value_from_yaml's max_recursion parameter
MaxRecursion == 10

(***************************************************************************)
(* customresolverreslib: ExtFilesManagerCls.resolve_value_from_ext_file    *)
(*                                                                         *)
(* The disk is a function from full paths to the dictionary the file       *)
(* holds.  The files of the model are flat dictionaries of strings, so     *)
(* str() is the identity on every value a key lookup reaches.              *)
(***************************************************************************)
\* The greatest element of a set of positions, 0 for the empty set
MaxOrZero(S) == IF S = {} THEN 0 ELSE SetMax(S)

\* Atoms whose text ends with '{'
OpensBrace(a) == a \in {"{", "${", "#{"}

\* ext_file_value_reg_exp, \{file\((?P<file_path>.+)\):(?P<config_param>.+)\}:
\* the positions of a ')' of a '):' that ends a non-empty file_path which
\* starts after the '{file(' at i and leaves a non-empty config_param
ExtFileSeps(s, i) ==
    {p \in (i + 4)..(Len(s) - 3) :
        /\ s[p] = ")" /\ s[p + 1] = ":"
        /\ \E e \in (p + 3)..Len(s) : s[e] = "}"}

\* The positions at which the expression matches
ExtFileStarts(s) ==
    {i \in 1..(Len(s) - 2) :
        /\ OpensBrace(s[i]) /\ s[i + 1] = "file" /\ s[i + 2] = "("
        /\ ExtFileSeps(s, i) # {}}

\* The groups of the match that starts at i, with the '):' at p and the
\* closing brace at e (both quantifiers are greedy)
ExtFileGroups(s, i, p, e) ==
    [found |-> TRUE, file_path |-> SubSeq(s, i + 3, p - 1), config_param |-> SubSeq(s, p + 2, e - 1)]

ExtFileMatchAt(s, i) ==
    IF i = 0 THEN [found |-> FALSE, file_path |-> <<>>, config_param |-> <<>>]
    ELSE ExtFileGroups(s, i, MaxOrZero(ExtFileSeps(s, i)), MaxOrZero(Positions(s, "}")))

\* ext_file_value_reg_exp.search(s)
ext_file_value_search(s) == ExtFileMatchAt(s, MinOrZero(ExtFileStarts(s)))

\* os.path.dirname(self.yaml_file) and the folder one level up
YamlFileFolder == <<"/", "srv", "/", "app">>
ParentFolder == <<"/", "srv">>

\* os.path.join of a folder and a path
path_join(folder, path) ==
    IF startswith(path, <<"/">>) THEN path
    ELSE IF endswith(folder, <<"/">>) THEN folder \o path
    ELSE folder \o <<"/">> \o path

\* _get_ext_file_full_path
get_ext_file_full_path(rel_path) ==
    IF startswith(rel_path, <<".", "/">>)
    THEN path_join(YamlFileFolder, SubSeq(rel_path, 3, Len(rel_path)))
    ELSE IF startswith(rel_path, <<".", ".", "/">>)
    THEN path_join(ParentFolder, SubSeq(rel_path, 4, Len(rel_path)))
    ELSE path_join(YamlFileFolder, rel_path)

\* os.path.splitext(path)[-1], given the position of the last '/' (0: none)
\* and of the last '.' after it (0: none); leading dots of the file name
\* do not start an extension
ExtensionAt(path, sep, dot) ==
    IF dot # 0 /\ (\E k \in (sep + 1)..(dot - 1) : path[k] # ".")
    THEN SubSeq(path, dot, Len(path))
    ELSE <<>>

ExtensionAfter(path, sep) ==
    ExtensionAt(path, sep, MaxOrZero({d \in Positions(path, ".") : d > sep}))

splitext(path) == ExtensionAfter(path, MaxOrZero(Positions(path, "/")))

\* The keys of proc_func_dict
SupportedExtensions == {<<".", "json">>, <<".", "yml">>, <<".", "yaml">>}

\* The files on disk: vars.json next to the manifest, and a text file
ExtFiles ==
    (<<"/", "srv", "/", "app", "/", "vars", ".", "json">> :> ((<<<<"key">>>> :> <<"V">>) @@ (<<<<"b">>>> :> <<"W">>)))
    @@ (<<"/", "srv", "/", "app", "/", "notes", ".", "txt">> :> (<<<<"key">>>> :> <<"N">>))

\* extract_dict_from_json / extract_dict_from_yaml: the dictionary of the
\* file, the empty dictionary when it cannot be read
extract_dict(full_path) ==
    IF full_path \in DOMAIN ExtFiles THEN ExtFiles[full_path] ELSE EmptyTree

\* Lines 276-281, given the outcome of _process_nested_dict_key
ExtFileValue(unres_val, res) == IF res.ok THEN res.value ELSE unres_val

\* Lines 268-281, given the resolved path and the resolved key: an
\* extension that proc_func_dict lacks raises KeyError
ExtFileLookup(unres_val, res_ext_file_path, res_ext_file_key) ==
    IF splitext(res_ext_file_path) \notin SupportedExtensions THEN unres_val
    ELSE ExtFileValue(unres_val,
                      Lookup(extract_dict(get_ext_file_full_path(res_ext_file_path)),
                             split(res_ext_file_key, ".")))

\* resolve_value_from_ext_file, given the match of ext_file_value_reg_exp:
\* without a match .group raises AttributeError, and every exception
\* returns the input
ExtFileResolve(unres_val, match, config_dict) ==
    IF ~match.found THEN unres_val
    ELSE ExtFileLookup(unres_val,
                       resolve_value_from_yaml(match.file_path, config_dict, MaxRecursion),
                       resolve_value_from_yaml(match.config_param, config_dict, MaxRecursion))

resolve_value_from_ext_file(unres_val, config_dict) ==
    ExtFileResolve(unres_val, ext_file_value_search(unres_val), config_dict)

(***************************************************************************)
(* customresolverreslib: YAMLResolverCls._process_value                    *)
(***************************************************************************)
\* unres_val_reg_exp, \$\{(.*)\}: the match starts at the first '${' and,
\* the quantifier being greedy, ends at the last '}' after it
UnresStart(value) == MinOrZero(Positions(value, "${"))
UnresEnd(value) == MaxOrZero(Positions(value, "}"))

\* re.sub(r'^\$?\{?self:', '', extracted_str)
StripSelf(extracted_str) ==
    IF startswith(extracted_str, <<"self", ":">>)
    THEN SubSeq(extracted_str, 3, Len(extracted_str))
    ELSE IF startswith(extracted_str, <<"{", "self", ":">>) \/ startswith(extracted_str, <<"${", "self", ":">>)
    THEN SubSeq(extracted_str, 4, Len(extracted_str))
    ELSE extracted_str

\* re.search('^(self:|opt:|env:)', extracted_str)
HasSourcePrefix(extracted_str) ==
    \E source \in {"self", "opt", "env"} : startswith(extracted_str, <<source, ":">>)

\* extracted_str.split(',')[1]
FallbackPart_Primary(parts) == parts[1]

FallbackPart(parts) == parts[2]

RECURSIVE process_value(_, _)

\* Lines 371-377: the except branch
ExceptBranch(value, unres_val, self_ref_dict) ==
    IF ext_file_value_search(unres_val).found
    THEN resolve_value_from_ext_file(unres_val, self_ref_dict)
    ELSE value

\* Lines 357-377, given the outcome of the traversal of self.ref_dict
AfterLookup(value, i, j, extracted_str, res, self_ref_dict) ==
    IF res.ok
    THEN process_value(SubSeq(value, 1, i - 1), self_ref_dict)
         \o res.value
         \o process_value(SubSeq(value, j + 1, Len(value)), self_ref_dict)
    ELSE ExceptBranch(value, <<"{">> \o extracted_str \o <<"}">>, self_ref_dict)

\* Lines 355-370: the traversal of self.ref_dict
LookupExtracted(value, i, j, extracted_str, self_ref_dict) ==
    AfterLookup(value, i, j, extracted_str,
                Lookup(self_ref_dict, split(StripSelf(extracted_str), ".")), self_ref_dict)

\* Lines 348-352: a nested ${...} from ni to nj is processed first
NestedAt_Literal(value, i, j, extracted_str, ni, nj, self_ref_dict) == LookupExtracted(value, i, j, extracted_str, self_ref_dict)

NestedAt(value, i, j, extracted_str, ni, nj, self_ref_dict) ==
    IF ni = 0 \/ nj < ni THEN LookupExtracted(value, i, j, extracted_str, self_ref_dict)
    ELSE LookupExtracted(value, i, j,
                         SubSeq(extracted_str, 1, ni - 1)
                         \o process_value(<<"${">> \o SubSeq(extracted_str, ni + 1, nj - 1) \o <<"}">>, self_ref_dict)
                         \o SubSeq(extracted_str, nj + 1, Len(extracted_str)),
                         self_ref_dict)

Nested(value, i, j, extracted_str, self_ref_dict) ==
    NestedAt(value, i, j, extracted_str, UnresStart(extracted_str), UnresEnd(extracted_str), self_ref_dict)

\* Lines 341-345: the fallback of 'value, fallback'
Fallback(value, i, j, extracted_str, self_ref_dict) ==
    IF ~HasSourcePrefix(extracted_str) THEN extracted_str
    ELSE Nested(value, i, j, extracted_str, self_ref_dict)

\* Lines 333-377, given the text between '${' and '}'
Extracted(value, i, j, extracted_str, self_ref_dict) ==
    IF Contains(extracted_str, ",")
    THEN Fallback(value, i, j, strip(FallbackPart(split(extracted_str, ","))), self_ref_dict)
    ELSE Nested(value, i, j, extracted_str, self_ref_dict)

\* A plausible slip: a value without a match is dropped instead of returned
Searched_Drop(value, i, j, self_ref_dict) ==
    IF i = 0 \/ j < i THEN <<>>
    ELSE Extracted(value, i, j, SubSeq(value, i + 1, j - 1), self_ref_dict)

\* Lines 331-380, given the match of unres_val_reg_exp
Searched(value, i, j, self_ref_dict) ==
    IF i = 0 \/ j < i THEN value
    ELSE Extracted(value, i, j, SubSeq(value, i + 1, j - 1), self_ref_dict)

process_value(value, self_ref_dict) ==
    Searched(value, UnresStart(value), UnresEnd(value), self_ref_dict)

(***************************************************************************)
(* Names of the modelled world                                             *)
(***************************************************************************)
\* Python's None where a name (handler, variable) is expected
None == "None"
\* Python's None where a string is expected
NoneStr == <<"None">>

dynamodb == <<"dynamodb">>
s3 == <<"s3">>
s3express == <<"s3", "express">>
Services == {dynamodb, s3}

PutItem == <<"PutItem">>
GetItem == <<"GetItem">>
GetObject == <<"GetObject">>
Actions == {PutItem, GetItem, GetObject}

\* The handlers under the manifest's functions tag
NumHandlers == 2
HandlerNames == <<"func1", "func2", "func3", "func4">>
Handlers == {HandlerNames[i] : i \in 1..NumHandlers}

\* A permission as the manifest writes it: 'service:action'
Perm(service, action) == service \o <<":">> \o action

(***************************************************************************)
(* PluginExtractedInfoCls                                                  *)
(*                                                                         *)
(* plugin_info is a defaultdict(dict): reading a missing top-level key     *)
(* inserts it with an empty dict.  It is modelled as a record              *)
(*   keys     : the top-level keys present                                 *)
(*   config   : plugin name -> [Override |-> set of <<handler, flag>>]     *)
(*   handlers : handler -> set of permission strings                       *)
(***************************************************************************)
IAMRolesPerFunction == "IAMRolesPerFunction"

\* plugin_info[key] on the defaultdict: the key exists afterwards
Touch(pinfo, key) == [pinfo EXCEPT !.keys = @ \cup {key}]

\* is_empty(): no plugin stored anything
is_empty(pinfo) == pinfo.keys = {}

\* has_handlers_permissions(): 'handlers' in self.plugin_info
has_handlers_permissions(pinfo) == "handlers" \in pinfo.keys

\* has_config_params_for_plugin(): plugin_name in self.plugin_info['config']
has_config_params_for_plugin_Never(pinfo, plugin_name) == [result |-> FALSE, plugin_info |-> Touch(pinfo, "config")]

has_config_params_for_plugin(pinfo, plugin_name) ==
    [result |-> plugin_name \in DOMAIN pinfo.config,
     plugin_info |-> Touch(pinfo, "config")]

\* get_config_params_for_plugin(): self.plugin_info['config'][plugin_name],
\* None on KeyError
get_config_params_for_plugin(pinfo, plugin_name) ==
    [result |-> IF plugin_name \in DOMAIN pinfo.config
                THEN pinfo.config[plugin_name] ELSE [Override |-> {}],
     found |-> plugin_name \in DOMAIN pinfo.config,
     plugin_info |-> Touch(pinfo, "config")]

\* re.sub('^[a-zA-Z0-9]+:', '', permission)
RemoveServiceName(permission) ==
    IF Contains(permission, ":")
    THEN LET i == SetMin(Positions(permission, ":"))
         IN IF i > 1 /\ \A j \in 1..(i - 1) : permission[j] \notin Punct
            THEN SubSeq(permission, i + 1, Len(permission))
            ELSE permission
    ELSE permission

\* The filter of get_permissions_for_handler: permission.startswith(service_name)
FilterByService(permissions, service_name) ==
    {permission \in permissions : startswith(permission, service_name)}

\* get_permissions_for_handler(handler_name, service_name, keep_service_name).
\* isNone: the KeyError branch, which returns None.
get_permissions_for_handler(pinfo, handler_name, service_name, keep_service_name) ==
    IF handler_name \notin DOMAIN pinfo.handlers
    THEN [isNone |-> TRUE, result |-> {}, plugin_info |-> Touch(pinfo, "handlers")]
    ELSE LET permissions == IF service_name # NoneStr
                            THEN FilterByService(pinfo.handlers[handler_name], service_name)
                            ELSE pinfo.handlers[handler_name]
         IN [isNone |-> FALSE,
             result |-> IF ~keep_service_name
                        THEN {RemoveServiceName(permission) : permission \in permissions}
                        ELSE permissions,
             plugin_info |-> pinfo]

(***************************************************************************)
(* permissionsreslib.analyse_api_permissions                               *)
(*                                                                         *)
(* A verdict is "True" or "False"; when the Python code raises, the        *)
(* verdict is the name of the exception.                                   *)
(***************************************************************************)
Bool(b) == IF b THEN "True" ELSE "False"

\* A plausible slip: every required permission must be granted, not just one
ServiceLevelTest_AllRequired(required, granted) == required \subseteq granted

\* (required_api_permissions & service_permissions) != set([])
ServiceLevelTest(required, granted) == required \cap granted # {}

\* Python's `required & handler_permissions`: a set operand and None raise
\* TypeError
Intersects(required, perms) ==
    IF perms.isNone THEN "TypeError" ELSE Bool(required \cap perms.result # {})

\* The list comprehension over the Override set, indexed with [0]
OverrideFlags(config_params, handler_name) ==
    {pair[2] : pair \in {p \in config_params.Override : p[1] = handler_name}}

\* Lines 49-86: the plugin information holds handler-level permissions
HandlerLevelAnalysis(required_api_permissions, service_permissions, service_name, pinfo, handler_name) ==
    LET has_config == has_config_params_for_plugin(pinfo, IAMRolesPerFunction)
        service_result == ServiceLevelTest(required_api_permissions, service_permissions)
    IN IF ~has_config.result
       THEN \* lines 57-62
            LET handler_permissions ==
                    get_permissions_for_handler(has_config.plugin_info, handler_name,
                                                service_name, FALSE)
                handler_result == Intersects(required_api_permissions, handler_permissions)
            IN [result |-> IF handler_result = "TypeError" THEN "TypeError"
                           ELSE Bool(service_result \/ handler_result = "True"),
                plugin_info |-> handler_permissions.plugin_info]
       ELSE LET config == get_config_params_for_plugin(has_config.plugin_info,
                                                       IAMRolesPerFunction)
                flags == OverrideFlags(config.result, handler_name)
            IN IF flags = {}
               THEN [result |-> "IndexError", plugin_info |-> config.plugin_info]
               ELSE LET handler_permissions ==
                            get_permissions_for_handler(config.plugin_info, handler_name,
                                                        service_name, FALSE)
                    IN IF TRUE \in flags
                       THEN \* lines 74-77: override, handler permissions only
                            [result |-> Intersects(required_api_permissions,
                                                   handler_permissions),
                             plugin_info |-> handler_permissions.plugin_info]
                       ELSE \* lines 82-86: union of service and handler permissions
                            [result |-> IF handler_permissions.isNone THEN "TypeError"
                                        ELSE Bool(required_api_permissions
                                                  \cap (service_permissions
                                                        \cup handler_permissions.result)
                                                  # {}),
                             plugin_info |-> handler_permissions.plugin_info]

analyse_api_permissions(required_api_permissions, service_permissions, service_name, pinfo, handler_name) ==
    IF is_empty(pinfo) \/ handler_name = None
    THEN [result |-> Bool(ServiceLevelTest(required_api_permissions, service_permissions)),
          plugin_info |-> pinfo]
    ELSE IF has_handlers_permissions(pinfo)
    THEN HandlerLevelAnalysis(required_api_permissions, service_permissions,
                              service_name, pinfo, handler_name)
    ELSE LET has_config == has_config_params_for_plugin(pinfo, IAMRolesPerFunction)
         IN IF has_config.result
            THEN [result |-> "False", plugin_info |-> has_config.plugin_info]
            ELSE [result |-> Bool(ServiceLevelTest(required_api_permissions, service_permissions)),
                  plugin_info |-> has_config.plugin_info]

(***************************************************************************)
(* The inputs analyse_api_permissions is applied to                        *)
(***************************************************************************)
EmptyMap == [x \in {} |-> {}]

\* Permission sets a handler's iamRoleStatements can grant
HandlerPermSets ==
    {{Perm(dynamodb, PutItem)},
     {Perm(dynamodb, GetItem), Perm(s3, GetObject)},
     {Perm(s3express, GetObject)}}

\* store_handlers_permissions: an entry for each handler that declares statements
HandlerPermMaps ==
    UNION {[hs -> HandlerPermSets] : hs \in (SUBSET Handlers) \ {{}}}

\* extract_configuration: one (handler, flag) pair for every handler
OverrideSets ==
    {{<<h, f[h]>> : h \in Handlers} : f \in [Handlers -> BOOLEAN]}

ConfigMaps ==
    {[p \in {IAMRolesPerFunction} |-> [Override |-> o]] : o \in OverrideSets}

PluginInfos ==
    {[keys |-> {}, config |-> EmptyMap, handlers |-> EmptyMap]}
    \cup {[keys |-> {"config"}, config |-> c, handlers |-> EmptyMap] : c \in ConfigMaps}
    \cup {[keys |-> {"handlers"}, config |-> EmptyMap, handlers |-> h] : h \in HandlerPermMaps}
    \cup {[keys |-> {"config", "handlers"}, config |-> c, handlers |-> h] :
              c \in ConfigMaps, h \in HandlerPermMaps}

\* Permissions an API requires (the tool's API configuration file)
RequiredSets == {{PutItem}, {GetObject}, {GetItem, PutItem}}

\* perm_dict[service]: the actions the provider statements allow for a service
ServicePermSets == {{}, {GetItem}, {GetItem, PutItem}, {GetObject}}

NoCall == [required |-> {}, service_permissions |-> {}, service_name |-> NoneStr, handler_name |-> None, plugin_info |-> [keys |-> {}, config |-> EmptyMap, handlers |-> EmptyMap]]

\* The state of the parts that analyse_api_permissions does not touch
NoHandlerSource == [call |-> [keywords |-> [k \in {} |-> [kind |-> "None", value |-> <<>>, slice |-> "None"]], args |-> <<>>], sc_file |-> <<>>]
NoResCall == [required |-> {}, service_name |-> NoneStr, resources_info |-> <<[id |-> "None", pos |-> "None"]>>]

\* No resource-level analysis has been made
ResIdle ==
    /\ manifest_perm_res_dict = <<>>
    /\ handler_source = NoHandlerSource
    /\ res_call = NoResCall
    /\ res_result = "none"
    /\ arg_verdicts = <<>>

\* No manifest has been handed to the resolver
YamlIdle ==
    /\ yaml_file = <<>>
    /\ root = <<>>
    /\ ref_dict = EmptyTree
    /\ visit_pos = 0
    /\ visited = <<>>
    /\ resolved_yaml = <<>>

\* No source file is being walked
NoWalker == [config_dict |-> [a \in {} |-> {}], handlers_dict |-> EmptyMap, perm_dict |-> EmptyMap, function_name |-> NoneStr]
NoWalkState == [pc |-> "none", body_copy |-> <<>>, i |-> 0, call |-> 0, counter |-> 0, api_to_process |-> None]
WalkIdle ==
    /\ walker = NoWalker
    /\ body = <<>>
    /\ walk_state = NoWalkState
    /\ call_log = <<>>
    /\ injected = {}

\* No permission index is under construction
NoIamConfig == [modern |-> [kind |-> "absent", statements |-> <<>>], legacy |-> [kind |-> "absent", statements |-> <<>>], custom |-> <<>>]
NoIdentifier == [pc |-> "none", perm_dict |-> EmptyMap, perm_res_dict |-> <<>>]
PermIdle ==
    /\ iam_config = NoIamConfig
    /\ identifier = NoIdentifier

\* No library function has been called
LibIdle ==
    /\ lib_call = [fn |-> "none"]
    /\ lib_result = "none"

InitApi ==
    /\ plugin_info \in PluginInfos
    /\ api_call = NoCall
    /\ api_result = "none"
    /\ ResIdle
    /\ YamlIdle
    /\ WalkIdle
    /\ PermIdle
    /\ LibIdle

\* One call of analyse_api_permissions
CallAnalyseApiPermissions ==
    \E required \in RequiredSets, service_permissions \in ServicePermSets,
       service_name \in Services, handler_name \in Handlers \cup {None} :
        LET r == analyse_api_permissions(required, service_permissions, service_name,
                                         plugin_info, handler_name)
        IN /\ api_call' = [required |-> required,
                           service_permissions |-> service_permissions,
                           service_name |-> service_name,
                           handler_name |-> handler_name,
                           plugin_info |-> plugin_info]
           /\ api_result' = r.result
           /\ plugin_info' = r.plugin_info
           /\ UNCHANGED <<resVars, yamlVars, walkVars, permVars, libVars>>

NextApi == CallAnalyseApiPermissions

SpecApi == InitApi /\ [][NextApi]_vars

(***************************************************************************)
(* AST nodes of a call's arguments, and what a helper hands back           *)
(*                                                                         *)
(* A node is [kind, value, slice]:                                         *)
(*   "ConstantStr"  a string literal, value its text                       *)
(*   "ConstantInt"  any other literal                                      *)
(*   "Environ"      os.environ['value']; slice is "Index" when the parser  *)
(*                  wraps the subscript in ast.Index (Python < 3.9) and    *)
(*                  "Constant" when it does not                            *)
(*   "Getenv"       os.getenv('value')                                     *)
(*   "Name"         a variable, value its identifier                       *)
(*   "Subscript"    any other subscript of a name, e.g. event['table']     *)
(*   "Call"         any other call of a name, e.g. get_table()             *)
(*   "Attribute"    an attribute access, e.g. self.table                   *)
(* A helper's outcome is [raised, isNone, value]: the exception it raised, *)
(* or None, or a string.                                                   *)
(***************************************************************************)
\* int(s) for the strings of the model; -1 stands for the ValueError that
\* int('None') raises
int(str) == CASE str = "0" -> 0 [] str = "1" -> 1 [] OTHER -> -1

Node(kind, value, slice) == [kind |-> kind, value |-> value, slice |-> slice]

Raised(exception) == [raised |-> exception, isNone |-> FALSE, value |-> <<>>]
ReturnNone == [raised |-> "no", isNone |-> TRUE, value |-> <<>>]
Return(value) == [raised |-> "no", isNone |-> FALSE, value |-> value]

\* get_call_input_ast_node: the keyword argument input_id if the call has it,
\* else the positional argument int(input_pos_arg), else None.  A call is
\* [keywords |-> name -> node, args |-> sequence of nodes]; input_pos_arg is
\* the string of the API configuration file, 'None' or a number.
get_call_input_ast_node(call_ast_node, input_id, input_pos_arg) ==
    IF input_id \in DOMAIN call_ast_node.keywords
    THEN [isNone |-> FALSE, node |-> call_ast_node.keywords[input_id]]
    ELSE IF int(input_pos_arg) >= 0 /\ int(input_pos_arg) + 1 <= Len(call_ast_node.args)
    THEN [isNone |-> FALSE, node |-> call_ast_node.args[int(input_pos_arg) + 1]]
    ELSE [isNone |-> TRUE, node |-> Node("None", <<>>, "None")]

(***************************************************************************)
(* envinspectionreslib                                                     *)
(***************************************************************************)
\* _process_env_var_value: the value, resolved if need be, or None when it
\* stays unresolved
ResolvedOrNone(env_var_value) ==
    IF check_if_resolved(env_var_value) THEN Return(env_var_value) ELSE ReturnNone

process_env_var_value(env_var_value, infrastruc_code_dict) ==
    IF ~check_if_resolved(env_var_value)
    THEN ResolvedOrNone(resolve_value_from_yaml(env_var_value, infrastruc_code_dict,
                                                MaxRecursion))
    ELSE Return(env_var_value)

\* _inspect_unres_info(str(environment), env_var) for an environment given
\* as a mapping: the first ${self:...} span inside it names a section, and
\* the variable is read from that section
SectionValue(res) == IF res.ok THEN Return(res.value) ELSE ReturnNone

inspect_unres_info(unres_values, env_var, infrastruc_code_dict) ==
    IF unres_values = {} THEN ReturnNone
    ELSE SectionValue(Lookup(infrastruc_code_dict,
                             split(findall_self(CHOOSE x \in unres_values : TRUE)[1], ".")
                                 \o <<env_var>>))

\* The values of the environment mapping below a path that hold a
\* ${self:...} span
UnresEnvValues(infrastruc_code_dict, env_path) ==
    {infrastruc_code_dict[p] : p \in {q \in DOMAIN infrastruc_code_dict :
        /\ Len(q) = Len(env_path) + 1 /\ SubSeq(q, 1, Len(env_path)) = env_path
        /\ \E i \in 1..Len(infrastruc_code_dict[q]) :
               SelfSpanEnd(infrastruc_code_dict[q], i) # 0}}

\* The common body of _inspect_handler_level_env and
\* _inspect_provider_level_env: the variable's value when the environment
\* has it, what the unresolved environment leads to when it has not
inspect_env(infrastruc_code_dict, env_path, env_var) ==
    IF env_path \o <<env_var>> \in DOMAIN infrastruc_code_dict
    THEN process_env_var_value(infrastruc_code_dict[env_path \o <<env_var>>],
                               infrastruc_code_dict)
    ELSE inspect_unres_info(UnresEnvValues(infrastruc_code_dict, env_path), env_var,
                            infrastruc_code_dict)

\* get_env_var_value: the handler's environment first, then the provider's
HandlerEnv(handler_name) == <<<<"functions">>, <<handler_name>>, <<"environment">>>>
ProviderEnv == <<<<"provider">>, <<"environment">>>>

EnvPaths(handler_name) == <<HandlerEnv(handler_name), ProviderEnv>>

RECURSIVE FirstEnvValue(_, _, _)
ValueOrNext(extracted_value, infrastruc_code_dict, env_paths, env_var) ==
    IF ~extracted_value.isNone \/ Len(env_paths) = 1 THEN extracted_value
    ELSE FirstEnvValue(infrastruc_code_dict, Tail(env_paths), env_var)

FirstEnvValue(infrastruc_code_dict, env_paths, env_var) ==
    ValueOrNext(inspect_env(infrastruc_code_dict, Head(env_paths), env_var),
                infrastruc_code_dict, env_paths, env_var)

get_env_var_value(infrastruc_code_dict, handler_name, env_var) ==
    FirstEnvValue(infrastruc_code_dict, EnvPaths(handler_name), env_var)

\* What reading the environment variable of an os.environ or os.getenv node
\* gives.  ast_node.slice.value.value of an os.environ subscript is the
\* variable's name under ast.Index and raises AttributeError ('str' has no
\* attribute 'value') without it.
EnvNodeValue(infrastruc_code_dict, handler_name, ast_node) ==
    IF ast_node.kind = "Environ" /\ ast_node.slice # "Index"
    THEN Raised("AttributeError")
    ELSE get_env_var_value(infrastruc_code_dict, handler_name, ast_node.value)

\* The assignment that get_var_value_from_env stops at, scanning the file in
\* ast.walk order: the first one whose target is not a plain name (the
\* filter reads node.targets[0].id, which raises AttributeError) or that
\* assigns os.environ[...], os.getenv(...) or another subscript or call to
\* var; 0 when there is none.  An assignment is [target_is_name, id, value].
DecidingAssign(sc_file, var) ==
    MinOrZero({i \in 1..Len(sc_file) :
                  \/ ~sc_file[i].target_is_name
                  \/ /\ sc_file[i].id = var
                     /\ sc_file[i].value.kind \in {"Environ", "Getenv", "Subscript", "Call"}})

\* inspect_ast_node for a node that is not a variable: os.environ and
\* os.getenv are resolved; detect_os_environ_ast_node and
\* detect_os_getenv_ast_node read node.value.value.id and
\* node.func.value.id, which a subscript or a call of a plain name does not
\* have; anything else gives None
InspectValueNode(ast_node, infrastruc_code_dict, handler_name) ==
    IF ast_node.kind \in {"Environ", "Getenv"}
    THEN EnvNodeValue(infrastruc_code_dict, handler_name, ast_node)
    ELSE IF ast_node.kind \in {"Subscript", "Call"} THEN Raised("AttributeError")
    ELSE ReturnNone

\* get_var_value_from_env, given the position i of the deciding assignment
VarValueAt(infrastruc_code_dict, handler_name, sc_file, i) ==
    IF i = 0 THEN ReturnNone
    ELSE IF ~sc_file[i].target_is_name THEN Raised("AttributeError")
    ELSE InspectValueNode(sc_file[i].value, infrastruc_code_dict, handler_name)

get_var_value_from_env(infrastruc_code_dict, handler_name, sc_file, var) ==
    VarValueAt(infrastruc_code_dict, handler_name, sc_file, DecidingAssign(sc_file, var))

\* inspect_ast_node: case 3 is a variable name, cases 1 and 2 os.environ
\* and os.getenv
inspect_ast_node(ast_node, infrastruc_code_dict, handler_name, sc_file) ==
    IF ast_node.kind = "Name"
    THEN get_var_value_from_env(infrastruc_code_dict, handler_name, sc_file, ast_node.value)
    ELSE InspectValueNode(ast_node, infrastruc_code_dict, handler_name)

(***************************************************************************)
(* awsarnprocessingreslib.AWSARNManagerCls                                 *)
(***************************************************************************)
\* Default of the constructor's arn_parts_num parameter
ArnPartsNum == 6

\* AWSARNDataCls(): every field ''
AWSARNDataCls == [partition |-> <<>>, service |-> <<>>, region |-> <<>>, account_id |-> <<>>, resource_id |-> <<>>]

\* Start of the first #{provider::parameter} in arn, 0 if none
ParamStart(arn) ==
    MinOrZero({i \in 1..(Len(arn) - 5) :
                  /\ arn[i] = "#{" /\ arn[i + 1] \notin Punct
                  /\ arn[i + 2] = ":" /\ arn[i + 3] = ":"
                  /\ arn[i + 4] \notin Punct /\ arn[i + 5] = "}"})

\* _sanitize_arn: every #{provider::parameter} becomes providerparameter;
\* SanitizeAt is given the start i of the first one (0: none)
RECURSIVE sanitize_arn(_)
SanitizeAt(arn, i) ==
    IF i = 0 THEN arn
    ELSE SubSeq(arn, 1, i - 1) \o <<arn[i + 1], arn[i + 4]>>
             \o sanitize_arn(SubSeq(arn, i + 6, Len(arn)))

sanitize_arn(arn) == SanitizeAt(arn, ParamStart(arn))

\* A plausible slip: the first part is not removed
ArnData_FirstKept(arn_parts) ==
    IF Len(arn_parts) # ArnPartsNum THEN AWSARNDataCls
    ELSE [partition |-> arn_parts[1], service |-> arn_parts[2],
          region |-> arn_parts[3], account_id |-> arn_parts[4],
          resource_id |-> arn_parts[5]]

\* _validate_arn: the parts after 'arn', when there are arn_parts_num parts
ArnData(arn_parts) ==
    IF Len(arn_parts) # ArnPartsNum THEN AWSARNDataCls
    ELSE [partition |-> arn_parts[2], service |-> arn_parts[3],
          region |-> arn_parts[4], account_id |-> arn_parts[5],
          resource_id |-> arn_parts[6]]

validate_arn(arn) == ArnData(split(arn, ":"))

\* AWSARNManagerCls(arn).aws_arn_data
AWSARNManagerCls(arn) == validate_arn(sanitize_arn(arn))

\* AWSARNDataCls.is_default: every field holds its default
is_default(data) ==
    \A field \in {"partition", "service", "region", "account_id", "resource_id"} :
        data[field] = <<>>

\* AWSARNManagerCls(arn).is_valid()
is_valid(arn) == ~is_default(AWSARNManagerCls(arn))

(***************************************************************************)
(* permissionsreslib.analyse_resource_level_permissions                    *)
(*                                                                         *)
(* perm_res_dict is a dict, which keeps insertion order: it is modelled    *)
(* as a sequence of [key, perms] with distinct keys, perms being a set of  *)
(* <<service, action>> tuples.                                             *)
(***************************************************************************)
Star == <<"*">>

Keys(permission_resource_dict) ==
    {permission_resource_dict[i].key : i \in 1..Len(permission_resource_dict)}

\* permission_resource_dict[resource]
Item(permission_resource_dict, resource) ==
    (CHOOSE e \in Range(permission_resource_dict) : e.key = resource).perms

\* A plausible slip: the tuples of the other services are not left out
extract_permission_set_AnyService(resource, permission_resource_dict, service) ==
    {perm_tuple[2] : perm_tuple \in Item(permission_resource_dict, resource)}

\* Nested function extract_permission_set
extract_permission_set(resource, permission_resource_dict, service) ==
    {perm_tuple[2] : perm_tuple \in
        {t \in Item(permission_resource_dict, resource) : t[1] = service}}

\* The test of get_close_match for one key, given its ARN
CloseMatchArn(resource_arn, resource_to_match, service) ==
    /\ resource_arn.service = service
    /\ \/ resource_arn.resource_id = resource_to_match
       \/ /\ Contains(resource_arn.resource_id, "/")
          /\ resource_to_match \in Range(split(resource_arn.resource_id, "/"))

CloseMatch(resource, resource_to_match, service) ==
    CloseMatchArn(AWSARNManagerCls(resource), resource_to_match, service)

\* Nested function get_close_match: the first key, in the dictionary's
\* order, that passes the test; None when there is none
KeyAt(permission_resource_dict, i) ==
    IF i = 0 THEN [isNone |-> TRUE, key |-> <<>>]
    ELSE [isNone |-> FALSE, key |-> permission_resource_dict[i].key]

\* A plausible slip: the last key that passes the test is returned
get_close_match_Last(resource_to_match, permission_resource_dict, service) ==
    KeyAt(permission_resource_dict,
          MaxOrZero({i \in 1..Len(permission_resource_dict) :
                        CloseMatch(permission_resource_dict[i].key, resource_to_match, service)}))

get_close_match(resource_to_match, permission_resource_dict, service) ==
    KeyAt(permission_resource_dict,
          MinOrZero({i \in 1..Len(permission_resource_dict) :
                        CloseMatch(permission_resource_dict[i].key, resource_to_match, service)}))

\* A plausible slip: an argument without a match is refused even when
\* some key of the index is still unresolved
NoMatchVerdict_AlwaysFalse(perm_res_dict) == "False"

\* Line 272: not check_if_resolved(perm_res_dict)
NoMatchVerdict(perm_res_dict) == Bool(~check_if_resolved_all(Keys(perm_res_dict)))

\* Part 3 of the loop body: the verdict, given what get_close_match returned
VerdictForMatch(resource_match, required_api_permissions, perm_res_dict, service_name) ==
    IF ~resource_match.isNone
    THEN Bool(extract_permission_set(resource_match.key, perm_res_dict, service_name)
                 \cap required_api_permissions # {})
    ELSE NoMatchVerdict(perm_res_dict)

\* The verdict for a value that is known
MatchVerdict(resource_value, required_api_permissions, perm_res_dict, service_name) ==
    VerdictForMatch(get_close_match(resource_value, perm_res_dict, service_name),
                    required_api_permissions, perm_res_dict, service_name)

\* Lines 237-251: the verdict, given what inspect_ast_node returned or raised
ResolvedVerdict(resolved_resource_input, required_api_permissions, perm_res_dict, service_name) ==
    IF resolved_resource_input.raised # "no" THEN resolved_resource_input.raised
    ELSE IF resolved_resource_input.isNone THEN "True"
    ELSE MatchVerdict(resolved_resource_input.value, required_api_permissions,
                      perm_res_dict, service_name)

\* Lines 217-272: the verdict, given what get_call_input_ast_node returned
InputVerdict(resource_input, required_api_permissions, perm_res_dict, service_name, infrastruc_code_dict, handler_name, sc_file) ==
    IF resource_input.isNone THEN "continue"
    ELSE IF resource_input.node.kind = "ConstantStr"
    THEN MatchVerdict(resource_input.node.value, required_api_permissions,
                      perm_res_dict, service_name)
    ELSE ResolvedVerdict(inspect_ast_node(resource_input.node, infrastruc_code_dict,
                                          handler_name, sc_file),
                         required_api_permissions, perm_res_dict, service_name)

\* One pass of the loop over resources_info.  "continue": the argument is
\* not in the call and nothing is recorded; "True"/"False": the value added
\* to permission_results; otherwise the exception that leaves the function.
ArgVerdict(required_api_permissions, perm_res_dict, service_name, resource_dict, api_call_ast_node, infrastruc_code_dict, handler_name, sc_file) ==
    InputVerdict(get_call_input_ast_node(api_call_ast_node, resource_dict.id, resource_dict.pos),
                 required_api_permissions, perm_res_dict, service_name,
                 infrastruc_code_dict, handler_name, sc_file)

\* all(permission_results)
Conjunction(results) == "False" \notin results

\* Python's None where resources_info (a list of dictionaries) is expected
NoneInfo == <<[id |-> "None", pos |-> "None"]>>

\* A plausible slip: a '*' key answers for every service and every action
WildcardShortcut_AnyStar(required_api_permissions, perm_res_dict, service_name) ==
    Star \in Keys(perm_res_dict)

\* The wildcard shortcut of lines 190-199
WildcardShortcut(required_api_permissions, perm_res_dict, service_name) ==
    /\ Star \in Keys(perm_res_dict)
    /\ extract_permission_set(Star, perm_res_dict, service_name)
           \cap required_api_permissions # {}

\* The loop of lines 208-275, given what each pass does and the first pass
\* that raises (0: none): the result and, for each entry of resources_info,
\* what the loop did with it ("unreached" after an exception)
LoopOutcome(each, first_raise) ==
    IF first_raise = 0
    THEN [result |-> Bool(Conjunction(Range(each))), verdicts |-> each]
    ELSE [result |-> each[first_raise],
          verdicts |-> [i \in 1..Len(each) |->
                           IF i <= first_raise THEN each[i] ELSE "unreached"]]

MainAlgorithm(each) ==
    LoopOutcome(each, MinOrZero({i \in 1..Len(each) :
                                    each[i] \notin {"continue", "True", "False"}}))

\* The function: its result (a Boolean, or the exception raised) and what
\* the loop did with each entry of resources_info ("unreached" when the
\* function returned before the loop)
analyse_resource_level_permissions(required_api_permissions, perm_res_dict, service_name, resources_info, api_call_ast_node, infrastruc_code_dict, handler_name, sc_file) ==
    IF resources_info = NoneInfo
    THEN [result |-> "True", verdicts |-> <<>>]
    ELSE IF WildcardShortcut(required_api_permissions, perm_res_dict, service_name)
    THEN [result |-> "True", verdicts |-> [i \in 1..Len(resources_info) |-> "unreached"]]
    ELSE MainAlgorithm([i \in 1..Len(resources_info) |->
                           ArgVerdict(required_api_permissions, perm_res_dict, service_name,
                                      resources_info[i], api_call_ast_node,
                                      infrastruc_code_dict, handler_name, sc_file)])

(***************************************************************************)
(* The manifest, the handler and the calls that                            *)
(* analyse_resource_level_permissions is applied to                        *)
(***************************************************************************)
\* Resource keys of the manifest's statements
ArnTableT == <<"arn", ":", "aws", ":", "dynamodb", ":", "eu", "-", "central", "-", "1", ":", "*", ":", "table", "/", "T">>
ArnTableU == <<"arn", ":", "aws", ":", "dynamodb", ":", "#{", "AWS", ":", ":", "Region", "}", ":", "*", ":", "table", "/", "U">>
ArnTableUnres == <<"arn", ":", "aws", ":", "dynamodb", ":", "eu", "-", "central", "-", "1", ":", "*", ":", "table", "/", "${", "self", ":", "custom", ".", "table", "}">>
ArnBucketB == <<"arn", ":", "aws", ":", "s3", ":", ":", ":", "B">>
ArnIndexT == ArnTableT \o <<"/", "index", "/", "X">>

\* What a statement records under its Resource
PermResEntries ==
    {[key |-> ArnTableT, perms |-> {<<dynamodb, PutItem>>}],
     [key |-> ArnTableT, perms |-> {<<s3, PutItem>>, <<dynamodb, GetItem>>}],
     [key |-> ArnTableU, perms |-> {<<dynamodb, PutItem>>}],
     [key |-> ArnTableUnres, perms |-> {<<dynamodb, PutItem>>}],
     [key |-> ArnBucketB, perms |-> {<<s3, GetObject>>}],
     [key |-> Star, perms |-> {<<s3, GetObject>>}],
     [key |-> Star, perms |-> {<<dynamodb, PutItem>>, <<dynamodb, GetItem>>}]}

\* The resource keys a manifest may hold
MaxKeys == 2

\* perm_res_dict after construction: distinct keys in insertion order
PermResDicts ==
    UNION {{d \in [1..n -> PermResEntries] :
               \A i, j \in 1..n : i # j => d[i].key # d[j].key} : n \in 0..MaxKeys}

\* A table and an index of it, under statements that grant different
\* actions, in either order
AmbiguousDicts ==
    {<<[key |-> ArnTableT, perms |-> {<<dynamodb, PutItem>>}],
       [key |-> ArnIndexT, perms |-> {<<dynamodb, GetItem>>}]>>,
     <<[key |-> ArnIndexT, perms |-> {<<dynamodb, GetItem>>}],
       [key |-> ArnTableT, perms |-> {<<dynamodb, PutItem>>}]>>}

\* The manifest as a dictionary: the handler's and the provider's environment
InfrastrucCodeDict ==
    (<<<<"functions">>, <<HandlerNames[1]>>, <<"environment">>, <<"TABLE">>>> :> <<"T">>)
    @@ (<<<<"provider">>, <<"environment">>, <<"OTHER">>>> :> <<"U">>)
    @@ (<<<<"provider">>, <<"environment">>, <<"STAGE">>>> :> <<"${", "self", ":", "custom", ".", "stage", "}">>)

\* The handler's source file: tbl = os.getenv('TABLE'), alone or after an
\* assignment to an attribute
AssignTbl == [target_is_name |-> TRUE, id |-> <<"tbl">>, value |-> Node("Getenv", <<"TABLE">>, "None")]
AssignAttr == [target_is_name |-> FALSE, id |-> <<>>, value |-> Node("ConstantInt", <<>>, "None")]
ScFiles == {<<AssignTbl>>, <<AssignAttr, AssignTbl>>}

\* The values a call passes as TableName
TableNodes ==
    {Node("ConstantStr", <<"T">>, "None"),
     Node("Getenv", <<"TABLE">>, "None"),
     Node("Getenv", <<"STAGE">>, "None"),
     Node("Environ", <<"TABLE">>, "Index"),
     Node("Environ", <<"TABLE">>, "Constant"),
     Node("Name", <<"tbl">>, "None"),
     Node("Subscript", <<>>, "None"),
     Node("Attribute", <<>>, "None")}

NoKeywords == [k \in {} |-> Node("None", <<>>, "None")]

\* The Bucket part of a call: none, first positional argument, keyword
BucketParts ==
    {[keywords |-> NoKeywords, args |-> <<>>],
     [keywords |-> NoKeywords, args |-> <<Node("ConstantStr", <<"B">>, "None")>>],
     [keywords |-> ("Bucket" :> Node("ConstantStr", <<"X">>, "None")), args |-> <<>>]}

\* The API calls of the handler
ApiCallNodes ==
    BucketParts
    \cup {[keywords |-> ("TableName" :> n) @@ b.keywords, args |-> b.args] :
              n \in TableNodes, b \in BucketParts}

\* A handler: one API call and the source file it is in.  The file matters
\* only to a call that passes a variable.
HandlerSources ==
    {[call |-> c, sc_file |-> f] : c \in ApiCallNodes, f \in ScFiles}
    \ {h \in [call : ApiCallNodes, sc_file : ScFiles] :
          /\ h.sc_file # <<AssignTbl>>
          /\ ~("TableName" \in DOMAIN h.call.keywords
               /\ h.call.keywords["TableName"].kind = "Name")}

\* resources_info of the API configuration file
TableNameArg == [id |-> "TableName", pos |-> "None"]
BucketArg == [id |-> "Bucket", pos |-> "0"]
ResourcesInfos == {NoneInfo, <<TableNameArg>>, <<TableNameArg, BucketArg>>}

InitRes ==
    /\ plugin_info = [keys |-> {}, config |-> EmptyMap, handlers |-> EmptyMap]
    /\ api_call = NoCall
    /\ api_result = "none"
    /\ manifest_perm_res_dict \in PermResDicts \cup AmbiguousDicts
    /\ handler_source \in HandlerSources
    /\ res_call = NoResCall
    /\ res_result = "none"
    /\ arg_verdicts = <<>>
    /\ YamlIdle
    /\ WalkIdle
    /\ PermIdle
    /\ LibIdle

\* The call of analyse_resource_level_permissions for the handler's API
\* call.  The function reads its arguments only, so a second call would
\* repeat the first.
CallAnalyseResourceLevelPermissions ==
    /\ res_result = "none"
    /\ \E required \in RequiredSets, service_name \in Services,
          resources_info \in ResourcesInfos :
        \E r \in {analyse_resource_level_permissions(
                      required, manifest_perm_res_dict, service_name, resources_info,
                      handler_source.call, InfrastrucCodeDict, HandlerNames[1],
                      handler_source.sc_file)} :
           /\ res_call' = [required |-> required, service_name |-> service_name,
                           resources_info |-> resources_info]
           /\ res_result' = r.result
           /\ arg_verdicts' = r.verdicts
           /\ UNCHANGED <<plugin_info, api_call, api_result, manifest_perm_res_dict, handler_source, yamlVars, walkVars, permVars, libVars>>

NextRes == CallAnalyseResourceLevelPermissions

SpecRes == InitRes /\ [][NextRes]_vars

(***************************************************************************)
(* customresolverreslib: YAMLResolverCls.resolve_yaml                      *)
(*                                                                         *)
(* The manifest is the list of its scalar values in document order, each   *)
(* with the path of keys that leads to it.  The keys are plain names,      *)
(* which _process_value returns as they are.                               *)
(***************************************************************************)
\* yaml.load(yaml.serialize(root)) and extract_dict_from_yaml: the
\* dictionary of a node tree; of two entries with one path the later stays
TreeOf(entries) ==
    [p \in {entries[i].path : i \in 1..Len(entries)} |->
        entries[SetMax({i \in 1..Len(entries) : entries[i].path = p})].value]

\* The scalars a manifest holds
NumScalars == 3

\* The keys of the manifest, in document order
ManifestKeys ==
    <<<<<<"custom">>, <<"a">>>>, <<<<"custom">>, <<"b">>>>, <<<<"custom">>, <<"c">>>>,
      <<<<"custom">>, <<"d">>>>, <<<<"custom">>, <<"e">>>>>>

\* A path of keys in dot notation
RECURSIVE Dotted(_)
Dotted(path) ==
    IF Len(path) = 1 THEN path[1] ELSE path[1] \o <<".">> \o Dotted(Tail(path))

\* The paths the scalars refer to: keys of the manifest and a path that
\* no manifest holds
MissingPath == <<<<"missing">>>>
RefPaths == {ManifestKeys[1], ManifestKeys[2], ManifestKeys[3], MissingPath}

\* ${self:<path>}
SelfRef(path) == <<"${", "self", ":">> \o Dotted(path) \o <<"}">>

\* ${opt:<x>, self:<path>}
OptNames == {<<"stage">>, <<"custom", ".", "c">>}
OptRef(x, path) == <<"${", "opt", ":">> \o x \o <<",", " ", "self", ":">> \o Dotted(path) \o <<"}">>

\* ${file(<file>):<key>}
VarsJson == <<"vars", ".", "json">>
FileNames == {VarsJson, <<".", "/", "vars", ".", "json">>, <<"missing", ".", "yml">>, <<"notes", ".", "txt">>}
FileKeys == {<<"key">>, <<"nokey">>}
FileRef(file, key) == <<"${", "file", "(">> \o file \o <<")", ":">> \o key \o <<"}">>

\* Text before and after a scalar
Wrap(value) == <<"p", "-">> \o value \o <<"-", "s">>

\* The scalars of a manifest
Literals == {<<"b">>}
SelfRefs == {SelfRef(path) : path \in RefPaths}
OptRefs == {OptRef(x, path) : x \in OptNames, path \in {ManifestKeys[3], MissingPath}}
FileRefs ==
    {FileRef(VarsJson, key) : key \in FileKeys}
    \cup {FileRef(file, <<"key">>) : file \in FileNames}
WrappedRefs == {Wrap(SelfRef(ManifestKeys[3])), Wrap(FileRef(<<"missing", ".", "yml">>, <<"key">>))}
NestedRefs ==
    {<<"${", "self", ":", "custom", ".">> \o SelfRef(ManifestKeys[3]) \o <<"}">>,
     FileRef(VarsJson, SelfRef(ManifestKeys[3]))}

\* ${opt:<x>, <literal>}
OptLiteral(x, literal) == <<"${", "opt", ":">> \o x \o <<",", " ">> \o literal \o <<"}">>

\* Two references in one scalar
TwoSpans(first, second) == first \o <<"-">> \o second

\* Scalars with text around a reference and with two references
ConcatRefs ==
    {TwoSpans(SelfRef(ManifestKeys[3]), SelfRef(ManifestKeys[3])),
     Wrap(OptRef(<<"stage">>, ManifestKeys[3])),
     Wrap(OptLiteral(<<"stage">>, <<"b">>)),
     Wrap(FileRef(VarsJson, <<"key">>))}

Templates ==
    Literals \cup SelfRefs \cup OptRefs \cup FileRefs \cup WrappedRefs \cup NestedRefs \cup ConcatRefs

\* The first two scalars are any of the templates, the others a literal or
\* a reference to an earlier or a missing key
LaterTemplates == Literals \cup {SelfRef(ManifestKeys[1]), SelfRef(MissingPath)}
TemplatesAt(k) == IF k <= 2 THEN Templates ELSE LaterTemplates

\* A manifest holds the file reference with a nested key or the scalar with
\* two references, not both: in a cycle of references the two together
\* double the value at each round of resolve_value_from_yaml
Manifests ==
    {[k \in 1..NumScalars |-> [path |-> ManifestKeys[k], value |-> f[k]]] :
        f \in {g \in [1..NumScalars -> Templates \cup LaterTemplates] :
                  /\ \A k \in 1..NumScalars : g[k] \in TemplatesAt(k)
                  /\ ~(/\ FileRef(VarsJson, SelfRef(ManifestKeys[3])) \in Range(g)
                       /\ TwoSpans(SelfRef(ManifestKeys[3]), SelfRef(ManifestKeys[3])) \in Range(g))}}

\* YAMLResolverCls(yaml_file, False): init_ref_dict maps the manifest as it
\* is on disk
InitYaml ==
    /\ yaml_file \in Manifests
    /\ root = <<>>
    /\ ref_dict = TreeOf(yaml_file)
    /\ visit_pos = 0
    /\ visited = <<>>
    /\ resolved_yaml = <<>>
    /\ plugin_info = [keys |-> {}, config |-> EmptyMap, handlers |-> EmptyMap]
    /\ api_call = NoCall
    /\ api_result = "none"
    /\ ResIdle
    /\ WalkIdle
    /\ PermIdle
    /\ LibIdle

\* resolve_yaml, line 405: get_root composes the node tree of the file
get_root ==
    /\ visit_pos = 0
    /\ root' = yaml_file
    /\ visit_pos' = 1
    /\ UNCHANGED <<yaml_file, ref_dict, visited, resolved_yaml, apiVars, resVars, walkVars, permVars, libVars>>

\* _visit on the next scalar node: the value is processed and the
\* reference dictionary is rebuilt from the whole tree
visit ==
    /\ visit_pos \in 1..Len(root)
    /\ \E res \in {process_value(root[visit_pos].value, ref_dict)} :
          /\ root' = [root EXCEPT ![visit_pos].value = res]
          /\ visited' = Append(visited, [value |-> root[visit_pos].value, ref_dict |-> ref_dict, result |-> res])
    /\ ref_dict' = TreeOf(root')
    /\ visit_pos' = visit_pos + 1
    /\ UNCHANGED <<yaml_file, resolved_yaml, apiVars, resVars, walkVars, permVars, libVars>>

\* resolve_yaml, lines 407-408: the dictionary of the visited tree
resolve_yaml_return ==
    /\ visit_pos = Len(root) + 1
    /\ resolved_yaml = <<>>
    /\ resolved_yaml' = <<TreeOf(root)>>
    /\ UNCHANGED <<yaml_file, root, ref_dict, visit_pos, visited, apiVars, resVars, walkVars, permVars, libVars>>

NextYaml == get_root \/ visit \/ resolve_yaml_return

SpecYaml == InitYaml /\ [][NextYaml]_vars

(***************************************************************************)
(* eventfilteringreslib                                                    *)
(*                                                                         *)
(* A list of the manifest is held in the tree under the keys [0], [1], ... *)
(* which no dotted path can name.                                          *)
(***************************************************************************)
ListIndex == <<<<"[0]">>, <<"[1]">>>>

\* infrastruc_code_dict['functions'][handler_name]['events'][i]['s3']['rules']
RulesPath(handler_name, i) ==
    <<<<"functions">>, <<handler_name>>, <<"events">>, ListIndex[i], <<"s3">>, <<"rules">>>>

\* 's3' in elem and 'rules' in item['s3'], for the entry i of events
HasRules(infrastruc_code_dict, handler_name, i) ==
    \E p \in DOMAIN infrastruc_code_dict :
        Len(p) >= 6 /\ SubSeq(p, 1, 6) = RulesPath(handler_name, i)

\* The prefix and suffix keys of the rules under rules_path
RuleKeys(infrastruc_code_dict, rules_path) ==
    {p \in DOMAIN infrastruc_code_dict :
        Len(p) = 8 /\ SubSeq(p, 1, 6) = rules_path /\ p[8] \in {<<"prefix">>, <<"suffix">>}}

\* Lines 147-151: a rule is tested on its prefix, or else on its suffix
RuleResult(input_to_check, infrastruc_code_dict, p) ==
    IF p[8] = <<"prefix">> THEN startswith(input_to_check, infrastruc_code_dict[p])
    ELSE endswith(input_to_check, infrastruc_code_dict[p])

FilteringResults(input_to_check, infrastruc_code_dict, rules_path) ==
    {RuleResult(input_to_check, infrastruc_code_dict, p) :
        p \in {q \in RuleKeys(infrastruc_code_dict, rules_path) :
                  \/ q[8] = <<"prefix">>
                  \/ [q EXCEPT ![8] = <<"prefix">>] \notin DOMAIN infrastruc_code_dict}}

\* s3_event_filtering_proc_func, given the first entry of events that holds
\* rules (0: none, the list index raises and True is returned)
S3RulesVerdict(input_to_check, infrastruc_code_dict, handler_name, i) ==
    IF i = 0 THEN TRUE
    ELSE FALSE \notin FilteringResults(input_to_check, infrastruc_code_dict, RulesPath(handler_name, i))

s3_event_filtering_proc_func(input_to_check, infrastruc_code_dict, handler_name) ==
    S3RulesVerdict(input_to_check, infrastruc_code_dict, handler_name,
                   MinOrZero({i \in 1..Len(ListIndex) : HasRules(infrastruc_code_dict, handler_name, i)}))

\* get_event_filtering_result on a resolved input: proc_func_dict holds a
\* function for s3 only, another service raises KeyError
get_event_filtering_result(service_name, input_to_check, infrastruc_code_dict, handler_name) ==
    IF service_name # s3 THEN "KeyError"
    ELSE Bool(s3_event_filtering_proc_func(input_to_check, infrastruc_code_dict, handler_name))

\* _get_var_value_from_sc: the assignment the scan of the file stops at,
\* the first one whose target is not a plain name (node.targets[0].id
\* raises AttributeError) or that assigns a string literal to var
SourceAssign(sc_file, var) ==
    MinOrZero({i \in 1..Len(sc_file) :
                  \/ ~sc_file[i].target_is_name
                  \/ sc_file[i].id = var /\ sc_file[i].value.kind = "ConstantStr"})

SourceValueAt(sc_file, i) ==
    IF i = 0 THEN ReturnNone
    ELSE IF ~sc_file[i].target_is_name THEN Raised("AttributeError")
    ELSE Return(sc_file[i].value.value)

get_var_value_from_sc(sc_file, var) == SourceValueAt(sc_file, SourceAssign(sc_file, var))

\* get_event_filtering_result on an unresolved input, given what
\* _get_var_value_from_sc returned
UnresolvedInputVerdict(service_name, var_value, infrastruc_code_dict, handler_name) ==
    IF var_value.raised # "no" THEN var_value.raised
    ELSE IF var_value.isNone THEN "True"
    ELSE get_event_filtering_result(service_name, var_value.value, infrastruc_code_dict, handler_name)

\* One pass of the loop of lines 75-105, given what get_call_input_ast_node
\* returned
FilterInputVerdict(service_name, input, infrastruc_code_dict, handler_name, sc_file) ==
    IF input.isNone THEN "continue"
    ELSE IF input.node.kind = "ConstantStr"
    THEN get_event_filtering_result(service_name, input.node.value, infrastruc_code_dict, handler_name)
    ELSE IF input.node.kind = "Name"
    THEN UnresolvedInputVerdict(service_name, get_var_value_from_sc(sc_file, input.node.value),
                                infrastruc_code_dict, handler_name)
    ELSE "True"

\* analyse_event_filtering: a Boolean, or the exception raised
analyse_event_filtering(service_name, event_filtering_info, api_call_ast_node, infrastruc_code_dict, handler_name, sc_file) ==
    IF event_filtering_info = NoneInfo THEN "True"
    ELSE MainAlgorithm([i \in 1..Len(event_filtering_info) |->
                           FilterInputVerdict(service_name,
                                              get_call_input_ast_node(api_call_ast_node,
                                                                      event_filtering_info[i].id,
                                                                      event_filtering_info[i].pos),
                                              infrastruc_code_dict, handler_name, sc_file)]).result

(***************************************************************************)
(* codesyninjreslib.CodeSynthesisInjectionCls                              *)
(*                                                                         *)
(* The walker is given one interface object (an s3 client) and walks the   *)
(* statement list of the function that uses it.  A statement is            *)
(* [kind, calls, handler, target]: kind "stmt" for a statement of the      *)
(* source with the ast.Call nodes astor reaches in it (pre_Call returns    *)
(* True, so the arguments of a call are not walked), "event_init" and      *)
(* "handler_call" for the two statements synthesized for a handler.        *)
(* A call is [is_attribute, attr, api_line]: whether func is an            *)
(* ast.Attribute, its attr, and whether lineno is in api_lineno_set.       *)
(***************************************************************************)
\* Positional parameters of analyse_resource_level_permissions and the
\* arguments _check_api_permissions passes to it
ResourceLevelParams == 8
ResourceLevelArgs == 9

\* Positional parameters of EventObjModelGeneratorCls.__init__ besides self
\* and the arguments _syn_event_obj_init_stmt passes to it
EventObjModelParams == 3
EventObjModelArgs == 4

\* A call with positional arguments of a function without defaults
CallPositional(args, params, result) == IF args # params THEN "TypeError" ELSE result

\* interf_record.service and the permission its put_object needs
InterfService == s3
PutObject == <<"PutObject">>
ObjectCreated == "ObjectCreated"

\* self.sc_file, /srv/app/handler.py: os.path.dirname(...).split('/')[-1]
\* and os.path.splitext(os.path.basename(...))[0]
ScFileFolder == <<"app">>
ScFileName == <<"handler">>

\* self.perm_dict[service] on the defaultdict: the value, and the dictionary
\* afterwards
PermDictGet(permissions, service) ==
    IF service \in DOMAIN permissions THEN permissions[service] ELSE {}

PermDictTouch(permissions, service) ==
    IF service \in DOMAIN permissions THEN permissions ELSE permissions @@ (service :> {})

\* infrastruc_code_dict['functions'][handler_name]['handler']
HandlerLocPath(handler_name) == <<<<"functions">>, <<handler_name>>, <<"handler">>>>

\* The handlers under functions, by their position in the manifest
FunctionsOf(infrastruc_code_dict) ==
    {i \in 1..Len(HandlerNames) :
        \E p \in DOMAIN infrastruc_code_dict :
            Len(p) >= 2 /\ p[1] = <<"functions">> /\ p[2] = <<HandlerNames[i]>>}

\* Lines 363-371: the location names the function of the file
LocMatches(handler_loc, function_name) ==
    \/ /\ Contains(handler_loc, "/")
       /\ endswith(handler_loc, ScFileFolder \o <<"/">> \o ScFileName \o <<".">> \o function_name)
    \/ /\ ~Contains(handler_loc, "/")
       /\ endswith(handler_loc, ScFileName \o <<".">> \o function_name)

\* The handler the loop of _get_handler_from_function stops at: the first
\* one without a location (KeyError) or whose location matches; 0: none
DecidingFunction(infrastruc_code_dict, function_name) ==
    MinOrZero({i \in FunctionsOf(infrastruc_code_dict) :
                  \/ HandlerLocPath(HandlerNames[i]) \notin DOMAIN infrastruc_code_dict
                  \/ LocMatches(infrastruc_code_dict[HandlerLocPath(HandlerNames[i])], function_name)})

HandlerAt(infrastruc_code_dict, i) ==
    IF i = 0 THEN None
    ELSE IF HandlerLocPath(HandlerNames[i]) \notin DOMAIN infrastruc_code_dict THEN None
    ELSE HandlerNames[i]

\* _get_handler_from_function: a function name None (a call outside every
\* function) raises TypeError in the concatenation, and None is returned
get_handler_from_function(infrastruc_code_dict, function_name) ==
    IF function_name = NoneStr THEN None
    ELSE HandlerAt(infrastruc_code_dict, DecidingFunction(infrastruc_code_dict, function_name))

\* _get_handler_qual_name, given the location after its last '/'
QualNameOf(handler_qual_name, parts) ==
    IF parts[1] # ScFileName THEN Return(handler_qual_name)
    ELSE IF Len(parts) < 2 THEN Raised("IndexError")
    ELSE Return(parts[2])

LastPart(parts) == parts[Len(parts)]

QualNameOfLoc(handler_qual_name) == QualNameOf(handler_qual_name, split(handler_qual_name, "."))

get_handler_qual_name(infrastruc_code_dict, handler_name) ==
    IF HandlerLocPath(handler_name) \notin DOMAIN infrastruc_code_dict THEN Raised("KeyError")
    ELSE QualNameOfLoc(LastPart(split(infrastruc_code_dict[HandlerLocPath(handler_name)], "/")))

\* _check_api_support
check_api_support(config_dict, api_name) == api_name \in DOMAIN config_dict

\* _check_api_permissions, given the two results: service is what
\* analyse_api_permissions returned or raised, resource what the call of
\* analyse_resource_level_permissions did ("unreached" after an exception)
CheckOutcome(service_perm_res, resource_level_perm_res) ==
    [result |-> IF service_perm_res.result \notin {"True", "False"} THEN service_perm_res.result
                ELSE IF resource_level_perm_res \notin {"True", "False"} THEN resource_level_perm_res
                ELSE Bool(service_perm_res.result = "True" /\ resource_level_perm_res = "True"),
     service |-> service_perm_res.result,
     resource |-> IF service_perm_res.result \notin {"True", "False"} THEN "unreached"
                  ELSE resource_level_perm_res,
     plugin_info |-> service_perm_res.plugin_info]

\* _check_api_permissions for an API of the configuration file
check_api_permissions(api_info, service_permissions, pinfo, perm_res_dict, source, infrastruc_code_dict, handler_name) ==
    CheckOutcome(analyse_api_permissions(api_info.permissions, service_permissions,
                                         InterfService, pinfo, handler_name),
                 CallPositional(ResourceLevelArgs, ResourceLevelParams,
                                analyse_resource_level_permissions(
                                    api_info.permissions, perm_res_dict, InterfService,
                                    api_info.resources, source.call, infrastruc_code_dict,
                                    handler_name, source.sc_file).result))

\* What pre_Call leaves behind: __api_to_process, the record of the
\* permission check if one was made, plugin_info and perm_dict
NotProcessed(pinfo, permissions) ==
    [api_to_process |-> None, log |-> <<>>, plugin_info |-> pinfo, perm_dict |-> permissions]

Processed(i, call_node, checked, permissions) ==
    [api_to_process |-> IF checked.result = "True" THEN call_node.attr ELSE None,
     log |-> <<[child |-> i, api |-> call_node.attr, service |-> checked.service,
                resource |-> checked.resource, result |-> checked.result]>>,
     plugin_info |-> checked.plugin_info,
     perm_dict |-> PermDictTouch(permissions, InterfService)]

\* pre_Call on the call node of statement i: func.attr of a call of a plain
\* name raises AttributeError; any exception leaves __api_to_process None
PreCallOutcome(i, call_node, self, pinfo, perm_res_dict, source, infrastruc_code_dict) ==
    IF ~call_node.is_attribute THEN NotProcessed(pinfo, self.perm_dict)
    ELSE IF ~(call_node.api_line /\ check_api_support(self.config_dict, call_node.attr))
    THEN NotProcessed(pinfo, self.perm_dict)
    ELSE Processed(i, call_node,
                   check_api_permissions(self.config_dict[call_node.attr],
                                         PermDictGet(self.perm_dict, InterfService),
                                         pinfo, perm_res_dict, source, infrastruc_code_dict,
                                         get_handler_from_function(infrastruc_code_dict,
                                                                   self.function_name)),
                   self.perm_dict)

\* A statement of the source, and the two statements synthesized for a
\* handler: the event object it is called with, and the call
Statement(calls) == [kind |-> "stmt", calls |-> calls, handler |-> <<>>, target |-> None]

\* The statement _syn_event_obj_init_stmt synthesizes for a handler's event
EventObjInitStmt(handler_name) ==
    [kind |-> "event_init", calls |-> <<>>, handler |-> <<>>, target |-> handler_name]

\* _syn_event_obj_init_stmt: the construction of the event object model
\* raises, or the statement is built ("ok")
syn_event_obj_init_stmt(handler_name) ==
    CallPositional(EventObjModelArgs, EventObjModelParams, "ok")

\* _syn_handler_call
syn_handler_call(handler_qual_name, handler_name) ==
    [kind |-> "handler_call", calls |-> <<>>, handler |-> handler_qual_name,
     target |-> handler_name]

\* get_events_handlers_dict: (service, event) -> the handlers subscribed
get_events_handlers_dict(handlers_dict) ==
    [service_event \in UNION {handlers_dict[h] : h \in DOMAIN handlers_dict} |->
        {h \in DOMAIN handlers_dict : service_event \in handlers_dict[h]}]

\* events_handlers_dict[(service, event)] on the defaultdict(set), iterated
\* in the order the set has
EventHandlers(events_handlers_dict, service_event, order) ==
    SelectSeq(order, LAMBDA h : /\ service_event \in DOMAIN events_handlers_dict
                                /\ h \in events_handlers_dict[service_event])

\* Lines 422-442, one handler: "filtered" (the generator yields None, None
\* and goes on), "raise" (the except clause ends the event), or "yield"
\* with the pair of statements
HandlerStep(event_filtering_res, handler_qual_name, event_obj_init_stmt, handler_name) ==
    IF event_filtering_res = "False" THEN [outcome |-> "filtered", stmts |-> <<>>]
    ELSE IF event_filtering_res # "True" THEN [outcome |-> "raise", stmts |-> <<>>]
    ELSE IF handler_qual_name.raised # "no" THEN [outcome |-> "raise", stmts |-> <<>>]
    ELSE IF event_obj_init_stmt # "ok" THEN [outcome |-> "raise", stmts |-> <<>>]
    ELSE [outcome |-> "yield",
          stmts |-> <<EventObjInitStmt(handler_name),
                      syn_handler_call(handler_qual_name.value, handler_name)>>]

RECURSIVE HandlersLoop(_, _, _, _)

AfterHandler(step, handlers, event_filtering_info, source, infrastruc_code_dict) ==
    IF step.outcome = "raise" THEN <<>>
    ELSE step.stmts \o HandlersLoop(Tail(handlers), event_filtering_info, source,
                                    infrastruc_code_dict)

\* The loop over the handlers of one event: the statements yielded
HandlersLoop(handlers, event_filtering_info, source, infrastruc_code_dict) ==
    IF handlers = <<>> THEN <<>>
    ELSE AfterHandler(HandlerStep(analyse_event_filtering(InterfService, event_filtering_info,
                                                          source.call, infrastruc_code_dict,
                                                          Head(handlers), source.sc_file),
                                  get_handler_qual_name(infrastruc_code_dict, Head(handlers)),
                                  syn_event_obj_init_stmt(Head(handlers)),
                                  Head(handlers)),
                      handlers, event_filtering_info, source, infrastruc_code_dict)

RECURSIVE EventsLoop(_, _, _, _, _, _)

\* The loop over the events the API triggers
EventsLoop(events, events_handlers_dict, order, event_filtering_info, source, infrastruc_code_dict) ==
    IF events = <<>> THEN <<>>
    ELSE HandlersLoop(EventHandlers(events_handlers_dict, <<InterfService, Head(events)>>, order),
                      event_filtering_info, source, infrastruc_code_dict)
         \o EventsLoop(Tail(events), events_handlers_dict, order, event_filtering_info,
                       source, infrastruc_code_dict)

\* _get_syn_code: the statements of the pairs it yields that are not
\* (None, None), in the order pre_body_name inserts them
get_syn_code(api_info, handlers_dict, order, source, infrastruc_code_dict) ==
    EventsLoop(api_info.events, get_events_handlers_dict(handlers_dict), order,
               api_info.events_filtering, source, infrastruc_code_dict)

\* body.insert(index, stmt) for each of stmts, index growing by one each time
Insert(stmts_list, index, stmts) ==
    IF index >= Len(stmts_list) THEN stmts_list \o stmts
    ELSE SubSeq(stmts_list, 1, index) \o stmts \o SubSeq(stmts_list, index + 1, Len(stmts_list))

\* The handlers whose call is among stmts
Targets(stmts) == {stmts[n].target : n \in {m \in 1..Len(stmts) : stmts[m].kind = "handler_call"}}

(***************************************************************************)
(* The application the walker is applied to: a file app/handler.py whose   *)
(* function upload puts an object in bucket B, handlers subscribed to the  *)
(* bucket's ObjectCreated event, and the manifest's permissions            *)
(***************************************************************************)
\* The handler tag of each function of the manifest
HandlerLocations ==
    <<<<"handler", ".", "upload">>,
      <<"app", "/", "handler", ".", "process">>,
      <<"other", ".", "run">>,
      <<"app", "/", "handler", ".", "upload">>>>

\* The manifest: the handlers' locations, the events of func1 to func3 (a
\* bucket without rules, a bucket with a prefix and a suffix rule, no s3
\* event), and the environment
WalkInfrastrucCodeDict ==
    [p \in {HandlerLocPath(HandlerNames[n]) : n \in 1..NumHandlers} |->
        HandlerLocations[CHOOSE n \in 1..NumHandlers : p = HandlerLocPath(HandlerNames[n])]]
    @@ (RulesPath(HandlerNames[2], 1) \o <<ListIndex[1], <<"prefix">>>> :> <<"uploads", "/">>)
    @@ (RulesPath(HandlerNames[2], 1) \o <<ListIndex[2], <<"suffix">>>> :> <<".", "txt">>)
    @@ (<<<<"functions">>, <<HandlerNames[1]>>, <<"events">>, ListIndex[1], <<"s3">>, <<"bucket">>>> :> <<"B">>)
    @@ InfrastrucCodeDict

\* The API configuration file for the s3 client: put_object, with and
\* without the input its event filtering depends on
BucketKeyword == [id |-> "Bucket", pos |-> "None"]
KeyKeyword == [id |-> "Key", pos |-> "None"]

PutObjectInfo(events_filtering) ==
    [permissions |-> {PutObject}, resources |-> <<BucketKeyword>>,
     events |-> <<ObjectCreated>>, events_filtering |-> events_filtering]

ApiConfigs ==
    {("put_object" :> PutObjectInfo(NoneInfo)), ("put_object" :> PutObjectInfo(<<KeyKeyword>>))}

\* handlers_dict: the handlers subscribed to the bucket's event
HandlersDicts == {[h \in hs |-> {<<InterfService, ObjectCreated>>}] : hs \in SUBSET Handlers}

\* The orders a set of handlers can be iterated in
HandlerOrders ==
    {order \in [1..NumHandlers -> Handlers] :
        \A m, n \in 1..NumHandlers : m # n => order[m] # order[n]}

\* perm_dict after construction
WalkPermDicts == {EmptyMap, (s3 :> {PutObject}), (s3 :> {GetObject})}

\* perm_res_dict after construction
WalkPermResDicts ==
    {<<>>,
     <<[key |-> ArnBucketB, perms |-> {<<s3, PutObject>>}]>>,
     <<[key |-> ArnBucketB, perms |-> {<<s3, GetObject>>}]>>}

\* plugin_info after construction: no plugin, or handler-level statements
\* for func1
WalkPluginInfos ==
    {[keys |-> {}, config |-> EmptyMap, handlers |-> EmptyMap],
     [keys |-> {"handlers"}, config |-> EmptyMap,
      handlers |-> (HandlerNames[1] :> {Perm(s3, PutObject)})]}

\* key = 'uploads/f.txt' in the source file, alone or after an assignment
\* to an attribute
AssignKey == [target_is_name |-> TRUE, id |-> <<"key">>, value |-> Node("ConstantStr", <<"uploads", "/", "f", ".", "txt">>, "None")]

\* The values the call passes as Key
KeyNodes ==
    {Node("ConstantStr", <<"uploads", "/", "f", ".", "txt">>, "None"),
     Node("ConstantStr", <<"img", ".", "jpg">>, "None"),
     Node("Name", <<"key">>, "None")}

BucketB == ("Bucket" :> Node("ConstantStr", <<"B">>, "None"))

\* put_object(Bucket='B') and put_object(Bucket='B', Key=...), and the file
\* the call is in; the file matters only to a call that passes a variable
WalkSources ==
    {[call |-> [keywords |-> BucketB, args |-> <<>>], sc_file |-> <<AssignKey>>]}
    \cup {[call |-> [keywords |-> BucketB @@ ("Key" :> n), args |-> <<>>],
           sc_file |-> <<AssignKey>>] : n \in KeyNodes}
    \cup {[call |-> [keywords |-> BucketB @@ ("Key" :> Node("Name", <<"key">>, "None")),
                     args |-> <<>>],
           sc_file |-> <<AssignAttr, AssignKey>>]}

\* The calls of a statement: the API call on the interface object, a call
\* of an API the configuration file does not hold, a call of put_object on
\* a line that is not in api_lineno_set, and a call of a plain name
ApiCall == [is_attribute |-> TRUE, attr |-> "put_object", api_line |-> TRUE]
UnsupportedCall == [is_attribute |-> TRUE, attr |-> "list_buckets", api_line |-> TRUE]
OtherLineCall == [is_attribute |-> TRUE, attr |-> "put_object", api_line |-> FALSE]
PlainCall == [is_attribute |-> FALSE, attr |-> None, api_line |-> FALSE]

\* The statement lists walked
Bodies ==
    {<<Statement(<<ApiCall>>)>>,
     <<Statement(<<>>), Statement(<<ApiCall>>), Statement(<<UnsupportedCall>>)>>,
     <<Statement(<<ApiCall>>), Statement(<<OtherLineCall>>), Statement(<<ApiCall, PlainCall>>)>>}

\* The function the statements are in: upload, or none
FunctionNames == {<<"upload">>, NoneStr}

\* The walker after construction, before astor calls pre_body_name
Init ==
    /\ plugin_info \in WalkPluginInfos
    /\ api_call = NoCall
    /\ api_result = "none"
    /\ manifest_perm_res_dict \in WalkPermResDicts
    /\ handler_source \in WalkSources
    /\ res_call = NoResCall
    /\ res_result = "none"
    /\ arg_verdicts = <<>>
    /\ YamlIdle
    /\ PermIdle
    /\ LibIdle
    /\ walker \in [config_dict : ApiConfigs, handlers_dict : HandlersDicts,
                   perm_dict : WalkPermDicts, function_name : FunctionNames]
    /\ body \in Bodies
    /\ walk_state = [NoWalkState EXCEPT !.pc = "start"]
    /\ call_log = <<>>
    /\ injected = {}

\* pre_body_name, lines 495-504: the loop starts on a copy of body
PreBodyName ==
    /\ walk_state.pc = "start"
    /\ walk_state' = [pc |-> "child", body_copy |-> body, i |-> 1, call |-> 1,
                      counter |-> 1, api_to_process |-> None]
    /\ UNCHANGED <<apiVars, resVars, yamlVars, walker, body, call_log, injected, permVars, libVars>>

\* pre_Call on the next call of the child being walked
PreCall ==
    /\ walk_state.pc = "child"
    /\ walk_state.i <= Len(walk_state.body_copy)
    /\ walk_state.call <= Len(walk_state.body_copy[walk_state.i].calls)
    /\ \E r \in {PreCallOutcome(walk_state.i,
                                walk_state.body_copy[walk_state.i].calls[walk_state.call],
                                walker, plugin_info, manifest_perm_res_dict, handler_source,
                                WalkInfrastrucCodeDict)} :
          /\ walk_state' = [walk_state EXCEPT !.call = @ + 1,
                                              !.api_to_process = r.api_to_process]
          /\ plugin_info' = r.plugin_info
          /\ walker' = [walker EXCEPT !.perm_dict = r.perm_dict]
          /\ call_log' = call_log \o r.log
    /\ UNCHANGED <<api_call, api_result, resVars, yamlVars, body, injected, permVars, libVars>>

\* pre_body_name, lines 509-523: after the walk of a child, the code
\* synthesized for the API call it holds is inserted after it
InjectSynCode ==
    /\ walk_state.pc = "child"
    /\ walk_state.i <= Len(walk_state.body_copy)
    /\ walk_state.call > Len(walk_state.body_copy[walk_state.i].calls)
    /\ \E order \in HandlerOrders :
         \E stmts \in {IF walk_state.api_to_process = None THEN <<>>
                       ELSE get_syn_code(walker.config_dict[walk_state.api_to_process],
                                         walker.handlers_dict, order, handler_source,
                                         WalkInfrastrucCodeDict)} :
            /\ body' = Insert(body, walk_state.i - 1 + walk_state.counter, stmts)
            /\ injected' = injected \cup {<<walk_state.i, h>> : h \in Targets(stmts)}
            /\ walk_state' = [walk_state EXCEPT !.i = @ + 1, !.call = 1,
                                                !.counter = @ + Len(stmts),
                                                !.api_to_process = None]
    /\ UNCHANGED <<apiVars, resVars, yamlVars, walker, call_log, permVars, libVars>>

\* pre_body_name, lines 527-528
PreBodyNameReturn ==
    /\ walk_state.pc = "child"
    /\ walk_state.i > Len(walk_state.body_copy)
    /\ walk_state' = [walk_state EXCEPT !.pc = "done", !.api_to_process = None]
    /\ UNCHANGED <<apiVars, resVars, yamlVars, walker, body, call_log, injected, permVars, libVars>>

Next ==
    \/ PreBodyName
    \/ PreCall
    \/ InjectSynCode
    \/ PreBodyNameReturn

Spec == Init /\ [][Next]_vars

(***************************************************************************)
(* permissionsreslib.PermissionsIdentifierCls                              *)
(*                                                                         *)
(* The manifest's policy is [modern, legacy, custom]:                      *)
(*   modern : provider.iam, by kind                                        *)
(*              "absent"        no provider.iam, or no role under it       *)
(*              "role_arn"      provider.iam.role is the ARN of a role     *)
(*              "no_statements" provider.iam.role is a dictionary without  *)
(*                              statements                                 *)
(*              "list"          provider.iam.role.statements is a list     *)
(*   legacy : provider.iamRoleStatements, "absent" or a "list"             *)
(*   custom : the scalars under the manifest's custom tag                  *)
(* A statement is a dictionary that may lack Effect, Action or Resource;   *)
(* Action is a list of strings and Resource a string.                      *)
(*                                                                         *)
(* perm_dict is a defaultdict(set), a function from the services present   *)
(* to their actions; perm_res_dict is a sequence of [key, perms] in        *)
(* insertion order.  A loop of the extraction yields [aborted, dict]: the  *)
(* dictionary it leaves and whether an exception ended it.                 *)
(***************************************************************************)
Stmt(has_effect, effect, has_action, action, has_resource, resource) ==
    [has_effect |-> has_effect, effect |-> effect, has_action |-> has_action,
     action |-> action, has_resource |-> has_resource, resource |-> resource]

\* self.config_dict, as far as resolve_value_from_yaml reads it
ConfigDictOf(config) == InfrastrucCodeDict @@ config.custom

\* _get_perm_dict_info: TypeError on the ARN of a role and KeyError on a
\* missing iamRoleStatements both end in the finally clause, which
\* returns the empty dictionary
get_perm_dict_info(config) ==
    IF config.modern.kind = "list"
    THEN [is_list |-> TRUE, statements |-> config.modern.statements]
    ELSE IF config.modern.kind = "role_arn"
    THEN [is_list |-> FALSE, statements |-> <<>>]
    ELSE IF config.legacy.kind = "list"
    THEN [is_list |-> TRUE, statements |-> config.legacy.statements]
    ELSE [is_list |-> FALSE, statements |-> <<>>]

\* self.perm_dict[perm.split(':')[0].strip()].add(perm.split(':')[1].strip()):
\* the key is looked up, and so inserted, before the second part is taken
AddPermParts(permissions, parts) ==
    IF Len(parts) < 2
    THEN [aborted |-> TRUE, dict |-> PermDictTouch(permissions, strip(parts[1]))]
    ELSE [aborted |-> FALSE,
          dict |-> [PermDictTouch(permissions, strip(parts[1]))
                        EXCEPT ![strip(parts[1])] = @ \cup {strip(parts[2])}]]

AddPerm(permissions, perm) == AddPermParts(permissions, split(perm, ":"))

\* for perm in extr_perm_dict['Action']
RECURSIVE AddPerms(_, _)
AddPermsNext(added, actions) ==
    IF added.aborted THEN added ELSE AddPerms(added.dict, Tail(actions))

AddPerms(permissions, actions) ==
    IF actions = <<>> THEN [aborted |-> FALSE, dict |-> permissions]
    ELSE AddPermsNext(AddPerm(permissions, Head(actions)), actions)

\* One round of the loop of extract_perm_from_provider: KeyError without
\* Effect, and without Action in an Allow statement
ProviderStatement(permissions, st) ==
    IF ~st.has_effect THEN [aborted |-> TRUE, dict |-> permissions]
    ELSE IF st.effect # "Allow" THEN [aborted |-> FALSE, dict |-> permissions]
    ELSE IF ~st.has_action THEN [aborted |-> TRUE, dict |-> permissions]
    ELSE AddPerms(permissions, st.action)

RECURSIVE ProviderLoop(_, _)
ProviderLoopNext(done, statements) ==
    IF done.aborted THEN done ELSE ProviderLoop(done.dict, Tail(statements))

ProviderLoop(permissions, statements) ==
    IF statements = <<>> THEN [aborted |-> FALSE, dict |-> permissions]
    ELSE ProviderLoopNext(ProviderStatement(permissions, Head(statements)), statements)

\* extract_perm_from_provider: the except clause keeps what was stored
extract_perm_from_provider(permissions, info) ==
    IF info.is_list THEN ProviderLoop(permissions, info.statements).dict ELSE permissions

\* self.perm_res_dict[key] on the defaultdict, and the update of its set
ResTouch(permission_resource_dict, key) ==
    IF key \in Keys(permission_resource_dict) THEN permission_resource_dict
    ELSE Append(permission_resource_dict, [key |-> key, perms |-> {}])

ResUpdate(permission_resource_dict, key, perm_tuple) ==
    [i \in 1..Len(permission_resource_dict) |->
        IF permission_resource_dict[i].key = key
        THEN [key |-> key, perms |-> permission_resource_dict[i].perms \cup {perm_tuple}]
        ELSE permission_resource_dict[i]]

\* self.perm_res_dict[str(Resource)].update([(service, action)])
AddResPermParts(permission_resource_dict, resource, parts) ==
    IF Len(parts) < 2
    THEN [aborted |-> TRUE, dict |-> ResTouch(permission_resource_dict, resource)]
    ELSE [aborted |-> FALSE,
          dict |-> ResUpdate(ResTouch(permission_resource_dict, resource), resource,
                             <<strip(parts[1]), strip(parts[2])>>)]

AddResPerm(permission_resource_dict, resource, perm) ==
    AddResPermParts(permission_resource_dict, resource, split(perm, ":"))

RECURSIVE AddResPerms(_, _, _)
AddResPermsNext(added, resource, actions) ==
    IF added.aborted THEN added ELSE AddResPerms(added.dict, resource, Tail(actions))

AddResPerms(permission_resource_dict, resource, actions) ==
    IF actions = <<>> THEN [aborted |-> FALSE, dict |-> permission_resource_dict]
    ELSE AddResPermsNext(AddResPerm(permission_resource_dict, resource, Head(actions)),
                         resource, actions)

\* One round of the loop of extract_perm_for_resources
ResourcesStatement(permission_resource_dict, st) ==
    IF ~st.has_effect THEN [aborted |-> TRUE, dict |-> permission_resource_dict]
    ELSE IF st.effect # "Allow" THEN [aborted |-> FALSE, dict |-> permission_resource_dict]
    ELSE IF ~st.has_action THEN [aborted |-> TRUE, dict |-> permission_resource_dict]
    ELSE AddResPerms(permission_resource_dict, st.resource, st.action)

RECURSIVE ResourcesLoop(_, _)
ResourcesLoopNext(done, statements) ==
    IF done.aborted THEN done ELSE ResourcesLoop(done.dict, Tail(statements))

ResourcesLoop(permission_resource_dict, statements) ==
    IF statements = <<>> THEN [aborted |-> FALSE, dict |-> permission_resource_dict]
    ELSE ResourcesLoopNext(ResourcesStatement(permission_resource_dict, Head(statements)),
                           statements)

\* 'Resource' in elem
HasResource(st) == st.has_resource

\* extract_perm_for_resources: only the statements with a Resource
extract_perm_for_resources(permission_resource_dict, info) ==
    IF info.is_list
    THEN ResourcesLoop(permission_resource_dict, SelectSeq(info.statements, HasResource)).dict
    ELSE permission_resource_dict

\* temp_dict[key] = permissions: a key already there keeps its place
DictSet(temp_dict, key, permissions) ==
    IF key \in Keys(temp_dict)
    THEN [i \in 1..Len(temp_dict) |->
             IF temp_dict[i].key = key THEN [key |-> key, perms |-> permissions]
             ELSE temp_dict[i]]
    ELSE Append(temp_dict, [key |-> key, perms |-> permissions])

\* resolve_resources: every key is resolved against the manifest
RECURSIVE ResolveLoop(_, _, _)
ResolveLoop(items, temp_dict, config_dict) ==
    IF items = <<>> THEN temp_dict
    ELSE ResolveLoop(Tail(items),
                     DictSet(temp_dict,
                             resolve_value_from_yaml(Head(items).key, config_dict, MaxRecursion),
                             Head(items).perms),
                     config_dict)

resolve_resources(permission_resource_dict, config_dict) ==
    ResolveLoop(permission_resource_dict, <<>>, config_dict)

\* The constructor
Constructed(config) ==
    [pc |-> "done",
     perm_dict |-> extract_perm_from_provider(EmptyMap, get_perm_dict_info(config)),
     perm_res_dict |-> resolve_resources(
                           extract_perm_for_resources(<<>>, get_perm_dict_info(config)),
                           ConfigDictOf(config))]

(***************************************************************************)
(* The manifests PermissionsIdentifierCls is constructed from              *)
(***************************************************************************)
PermStar == <<"*">>

StatementPool ==
    {Stmt(TRUE, "Allow", TRUE, <<Perm(dynamodb, PutItem)>>, TRUE, ArnTableT),
     Stmt(TRUE, "Allow", TRUE, <<Perm(s3, GetObject), Perm(dynamodb, GetItem)>>, TRUE, Star),
     Stmt(TRUE, "Allow", TRUE, <<Perm(s3, GetObject)>>, FALSE, <<>>),
     Stmt(TRUE, "Allow", TRUE, <<Perm(dynamodb, GetItem)>>, TRUE, ArnTableUnres),
     Stmt(TRUE, "Allow", TRUE, <<PermStar>>, TRUE, Star),
     Stmt(TRUE, "Deny", TRUE, <<Perm(dynamodb, PutItem)>>, TRUE, ArnTableT),
     Stmt(FALSE, "", TRUE, <<Perm(s3, GetObject)>>, TRUE, ArnBucketB),
     Stmt(FALSE, "", TRUE, <<Perm(s3, GetObject)>>, FALSE, <<>>),
     Stmt(TRUE, "Allow", FALSE, <<>>, TRUE, ArnBucketB)}

\* The statements a list may hold
MaxStatements == 2

StatementLists == UNION {[1..n -> StatementPool] : n \in 0..MaxStatements}

\* The list the manifest keeps under the legacy tag next to a modern one
LegacyBesideModern == <<Stmt(TRUE, "Allow", TRUE, <<Perm(s3, GetObject)>>, TRUE, ArnBucketB)>>

NoStatements == [kind |-> "absent", statements |-> <<>>]
ListOf(statements) == [kind |-> "list", statements |-> statements]

PolicySections ==
    {[modern |-> ListOf(l), legacy |-> NoStatements] : l \in StatementLists}
    \cup {[modern |-> ListOf(l), legacy |-> ListOf(LegacyBesideModern)] : l \in StatementLists}
    \cup {[modern |-> [kind |-> k, statements |-> <<>>], legacy |-> ListOf(l)] :
              k \in {"absent", "role_arn", "no_statements"}, l \in StatementLists}
    \cup {[modern |-> [kind |-> k, statements |-> <<>>], legacy |-> NoStatements] :
              k \in {"absent", "role_arn", "no_statements"}}

CustomSections == {<<>>, (<<<<"custom">>, <<"table">>>> :> <<"T">>)}

IamConfigs ==
    {[modern |-> p.modern, legacy |-> p.legacy, custom |-> c] :
        p \in PolicySections, c \in CustomSections}

NoPluginInfo == [keys |-> {}, config |-> EmptyMap, handlers |-> EmptyMap]

InitPerm ==
    /\ iam_config \in IamConfigs
    /\ identifier = [pc |-> "new", perm_dict |-> EmptyMap, perm_res_dict |-> <<>>]
    /\ plugin_info = NoPluginInfo
    /\ api_call = NoCall
    /\ api_result = "none"
    /\ ResIdle
    /\ YamlIdle
    /\ WalkIdle
    /\ LibIdle

\* get_num_of_services(): len(self.perm_dict)
get_num_of_services(ident) == Cardinality(DOMAIN ident.perm_dict)

\* perm_identifier = PermissionsIdentifierCls(self.infrastruc_code_dict)
Construct ==
    /\ identifier.pc = "new"
    /\ identifier' = Constructed(iam_config)
    /\ UNCHANGED <<iam_config, apiVars, resVars, yamlVars, walkVars, libVars>>

\* A service-level query on the constructed index: no plugin stored
\* anything, and self.perm_dict[service] inserts a missing service
ServiceLevelQuery ==
    /\ identifier.pc = "done"
    /\ \E required \in RequiredSets, service_name \in Services, handler_name \in Handlers \cup {None} :
        \E r \in {analyse_api_permissions(required, PermDictGet(identifier.perm_dict, service_name),
                                          service_name, plugin_info, handler_name)} :
           /\ api_call' = [required |-> required,
                           service_permissions |-> PermDictGet(identifier.perm_dict, service_name),
                           service_name |-> service_name,
                           handler_name |-> handler_name,
                           plugin_info |-> plugin_info]
           /\ api_result' = r.result
           /\ plugin_info' = r.plugin_info
           /\ identifier' = [identifier EXCEPT !.perm_dict = PermDictTouch(@, service_name)]
    /\ UNCHANGED <<iam_config, resVars, yamlVars, walkVars, libVars>>

NextPerm == Construct \/ ServiceLevelQuery

SpecPerm == InitPerm /\ [][NextPerm]_vars

(***************************************************************************)
(* iamrolesperfunctionpluginreslib.IAMRolesPerFunctionPluginModelCls       *)
(*                                                                         *)
(* The manifest is loaded with yaml.BaseLoader, so a Boolean tag is the    *)
(* string the file holds.  The plugin's part of the manifest is            *)
(* [default_inherit, inherit]: custom.serverless-iam-roles-per-function    *)
(* .defaultInherit, and iamRoleStatementsInherit of every handler under    *)
(* functions, "absent" for a missing tag.                                  *)
(***************************************************************************)
\* str.capitalize() on the spellings of a Boolean
capitalize(str) ==
    CASE str \in {"true", "True", "TRUE"} -> "True"
      [] str \in {"false", "False", "FALSE"} -> "False"
      [] OTHER -> str

\* eval() of a capitalized tag: [raised, value]; a name that is not a
\* Python literal raises NameError
eval(str) ==
    CASE str = "True" -> [raised |-> FALSE, value |-> TRUE]
      [] str = "False" -> [raised |-> FALSE, value |-> FALSE]
      [] OTHER -> [raised |-> TRUE, value |-> FALSE]

\* Lines 33-39 and 54-59, given what eval returned: the negation, or the
\* default when the lookup or eval raised
NegatedOr(evaluated, default) == IF evaluated.raised THEN default ELSE ~evaluated.value

\* The tag's value, or the default when the tag is missing (KeyError)
OverrideOf(tag, default) ==
    IF tag = "absent" THEN default ELSE NegatedOr(eval(capitalize(tag)), default)

\* _get_override_config
get_override_config(config) == OverrideOf(config.default_inherit, TRUE)

\* A plausible slip: the inherit flag is stored instead of its negation
extract_configuration_Inherit(config) ==
    [Override |-> {<<handler, ~OverrideOf(config.inherit[handler], get_override_config(config))>> :
                      handler \in DOMAIN config.inherit}]

\* extract_configuration
extract_configuration(config) ==
    [Override |-> {<<handler, OverrideOf(config.inherit[handler], get_override_config(config))>> :
                      handler \in DOMAIN config.inherit}]

\* The spellings of the tags in the manifests
InheritTags == {"absent", "true", "false", "TRUE", "False"}

PluginConfigs ==
    {[default_inherit |-> d, inherit |-> i] : d \in InheritTags, i \in [Handlers -> InheritTags]}

(***************************************************************************)
(* Calls of the library functions                                          *)
(*                                                                         *)
(* lib_call holds the name of the function called and its arguments,       *)
(* lib_result what it returned.  The functions read their arguments only,  *)
(* so a second call would repeat the first.                                *)
(***************************************************************************)
\* sep.join(parts)
RECURSIVE join(_, _)
join(parts, sep) ==
    IF parts = <<>> THEN <<>>
    ELSE IF Len(parts) = 1 THEN parts[1]
    ELSE parts[1] \o <<sep>> \o join(Tail(parts), sep)

\* The resources a call names
CloseMatchCandidates ==
    {<<"T">>, <<"U">>, <<"B">>, <<"table">>, <<"table", "/", "T">>, <<"X">>}

\* The colon-separated parts a resource string may have, and the strings
MaxSegments == 7

ArnSegments == {<<>>, <<"aws">>}

ArnStrings ==
    {join(parts, ":") : parts \in UNION {[1..n -> ArnSegments] : n \in 1..MaxSegments}}
    \cup {ArnTableT, ArnTableU, ArnTableUnres, ArnBucketB, Star}

\* The keys an s3 call may name, the prefix and the suffix of the rules
UploadsPrefix == <<"upload", "s", "/">>
TxtSuffix == <<".", "txt">>
UploadsTxt == <<"upload", "s", "/", "my", "-", "file", ".", "txt">>
UploadsJpg == <<"upload", "s", "/", "my", "-", "file", ".", "jpg">>
UploadFolderTxt == <<"upload", "-", "folder", "/", "my", "-", "file", ".", "txt">>
FilterLiterals == {UploadsTxt, UploadsJpg, UploadFolderTxt}

\* functions.<handler>.events[i].s3.rules[j].<kind>
RuleAt(handler_name, i, j, kind) == RulesPath(handler_name, i) \o <<ListIndex[j], <<kind>>>>

BucketAt(handler_name, i) ==
    <<<<"functions">>, <<handler_name>>, <<"events">>, ListIndex[i], <<"s3">>, <<"bucket">>>>

\* The manifests: func1 without events; with a bucket and no rules; with a
\* prefix rule and a suffix rule; with a suffix rule; with one rule that
\* holds a prefix and a suffix; with two s3 events, a prefix rule in the
\* first and a suffix rule in the second; with a bucket without rules and
\* then a bucket with a suffix rule
FilterManifests ==
    {InfrastrucCodeDict,
     (BucketAt(HandlerNames[1], 1) :> <<"B">>),
     (RuleAt(HandlerNames[1], 1, 1, "prefix") :> UploadsPrefix)
         @@ (RuleAt(HandlerNames[1], 1, 2, "suffix") :> TxtSuffix),
     (RuleAt(HandlerNames[1], 1, 1, "suffix") :> TxtSuffix),
     (RuleAt(HandlerNames[1], 1, 1, "prefix") :> UploadsPrefix)
         @@ (RuleAt(HandlerNames[1], 1, 1, "suffix") :> TxtSuffix),
     (RuleAt(HandlerNames[1], 1, 1, "prefix") :> UploadsPrefix)
         @@ (RuleAt(HandlerNames[1], 2, 1, "suffix") :> TxtSuffix),
     (BucketAt(HandlerNames[1], 1) :> <<"B">>)
         @@ (RuleAt(HandlerNames[1], 2, 1, "suffix") :> TxtSuffix)}

\* The filtering arguments the API configuration file declares
PrefixKeyword == [id |-> "Prefix", pos |-> "None"]
FilteringInfos == {NoneInfo, <<KeyKeyword>>, <<KeyKeyword, PrefixKeyword>>}

\* What a call passes as Key: a literal, the variable key, a number, a call
FilterKeyNodes ==
    {Node("ConstantStr", v, "None") : v \in FilterLiterals}
    \cup {Node("Name", <<"key">>, "None"), Node("ConstantInt", <<>>, "None"),
          Node("Getenv", <<"TABLE">>, "None")}

FilterPrefixNodes == {Node("ConstantStr", UploadsTxt, "None"), Node("ConstantStr", UploadsJpg, "None")}

\* The calls: without the arguments, with Key, with Key and Prefix
FilterCalls ==
    {[keywords |-> BucketB, args |-> <<>>]}
    \cup {[keywords |-> BucketB @@ ("Key" :> n), args |-> <<>>] : n \in FilterKeyNodes}
    \cup {[keywords |-> BucketB @@ ("Key" :> n) @@ ("Prefix" :> m), args |-> <<>>] :
              n \in FilterKeyNodes, m \in FilterPrefixNodes}

\* The assignments of the source file: key = '<literal>', key = 5,
\* other = '<literal>', and an assignment to an attribute
AssignKeyTo(v) == [target_is_name |-> TRUE, id |-> <<"key">>, value |-> Node("ConstantStr", v, "None")]
AssignKeyInt == [target_is_name |-> TRUE, id |-> <<"key">>, value |-> Node("ConstantInt", <<>>, "None")]
AssignOther == [target_is_name |-> TRUE, id |-> <<"other">>, value |-> Node("ConstantStr", UploadsJpg, "None")]

FilterScFiles ==
    {<<>>, <<AssignKeyTo(UploadsTxt)>>, <<AssignKeyTo(UploadsJpg)>>, <<AssignKeyInt>>,
     <<AssignOther>>, <<AssignAttr>>, <<AssignAttr, AssignKeyTo(UploadsTxt)>>,
     <<AssignKeyInt, AssignKeyTo(UploadsTxt)>>, <<AssignKeyTo(UploadsJpg), AssignAttr>>}

InitLib ==
    /\ lib_call = [fn |-> "none"]
    /\ lib_result = "none"
    /\ plugin_info = NoPluginInfo
    /\ api_call = NoCall
    /\ api_result = "none"
    /\ ResIdle
    /\ YamlIdle
    /\ WalkIdle
    /\ PermIdle

\* get_close_match(resource_to_match, permission_resource_dict, service)
CallGetCloseMatch ==
    /\ lib_call.fn = "none"
    /\ \E resource_to_match \in CloseMatchCandidates, permission_resource_dict \in PermResDicts,
          service \in Services :
          /\ lib_call' = [fn |-> "get_close_match", resource_to_match |-> resource_to_match,
                          permission_resource_dict |-> permission_resource_dict,
                          service |-> service]
          /\ lib_result' = get_close_match(resource_to_match, permission_resource_dict, service)
    /\ UNCHANGED <<apiVars, resVars, yamlVars, walkVars, permVars>>

\* AWSARNManagerCls(arn): the fields and is_valid()
CallAWSARNManagerCls ==
    /\ lib_call.fn = "none"
    /\ \E arn \in ArnStrings :
          /\ lib_call' = [fn |-> "AWSARNManagerCls", arn |-> arn]
          /\ lib_result' = [data |-> AWSARNManagerCls(arn), is_valid |-> is_valid(arn)]
    /\ UNCHANGED <<apiVars, resVars, yamlVars, walkVars, permVars>>

\* EventFilteringManagerCls(...).get_event_filtering_result(input, 'resolved')
\* for the s3 service
CallGetEventFilteringResult ==
    /\ lib_call.fn = "none"
    /\ \E input_to_check \in FilterLiterals, infrastruc_code_dict \in FilterManifests,
          handler_name \in Handlers :
          /\ lib_call' = [fn |-> "get_event_filtering_result", input_to_check |-> input_to_check,
                          infrastruc_code_dict |-> infrastruc_code_dict,
                          handler_name |-> handler_name]
          /\ lib_result' = get_event_filtering_result(s3, input_to_check, infrastruc_code_dict,
                                                      handler_name)
    /\ UNCHANGED <<apiVars, resVars, yamlVars, walkVars, permVars>>

\* analyse_event_filtering(service_name, event_filtering_info,
\* api_call_ast_node, infrastruc_code_dict, handler_name, sc_file)
CallAnalyseEventFiltering ==
    /\ lib_call.fn = "none"
    /\ \E service_name \in Services, event_filtering_info \in FilteringInfos,
          api_call_ast_node \in FilterCalls, infrastruc_code_dict \in FilterManifests,
          sc_file \in FilterScFiles :
          /\ lib_call' = [fn |-> "analyse_event_filtering", service_name |-> service_name,
                          event_filtering_info |-> event_filtering_info,
                          api_call_ast_node |-> api_call_ast_node,
                          infrastruc_code_dict |-> infrastruc_code_dict,
                          handler_name |-> HandlerNames[1], sc_file |-> sc_file]
          /\ lib_result' = analyse_event_filtering(service_name, event_filtering_info,
                                                   api_call_ast_node, infrastruc_code_dict,
                                                   HandlerNames[1], sc_file)
    /\ UNCHANGED <<apiVars, resVars, yamlVars, walkVars, permVars>>

\* IAMRolesPerFunctionPluginModelCls(config_dict).extract_configuration()
CallExtractConfiguration ==
    /\ lib_call.fn = "none"
    /\ \E config \in PluginConfigs :
          /\ lib_call' = [fn |-> "extract_configuration", config |-> config]
          /\ lib_result' = extract_configuration(config)
    /\ UNCHANGED <<apiVars, resVars, yamlVars, walkVars, permVars>>

\* ---- ExtFilesManagerCls.resolve_ext_files ----
\* The serialized manifest is a text of atoms, one index and one column per
\* atom.  A document is a sequence of lines [indent, lead, value]: the
\* indentation, the text up to the scalar ('key: ' or '- ') and the scalar.
Spaces(n) == [i \in 1..n |-> " "]

LineText(line) == Spaces(line.indent) \o line.lead \o line.value \o <<"\n">>

\* _get_serialized_file(self.yaml_file)
RECURSIVE Serialized(_)
Serialized(doc) == IF doc = <<>> THEN <<>> ELSE LineText(Head(doc)) \o Serialized(Tail(doc))

\* extract_dict_from_yaml of the manifest: the scalars of the top-level keys
RefDictOf(doc) ==
    [p \in {<<SubSeq(doc[i].lead, 1, 1)>> : i \in {j \in 1..Len(doc) : doc[j].indent = 0 /\ doc[j].value # <<>>}} |->
        doc[CHOOSE i \in 1..Len(doc) : doc[i].indent = 0 /\ <<SubSeq(doc[i].lead, 1, 1)>> = p].value]

\* ext_file_reg_exp, \{file\((?P<file_path>.+)\)\}: the first '{file(' and,
\* the quantifier being greedy, the last ')}' that leaves a path between
ExtFileEnds(value, i) == {p \in (i + 4)..(Len(value) - 1) : value[p] = ")" /\ value[p + 1] = "}"}

ExtFileOnlyStarts(value) ==
    {i \in 1..(Len(value) - 2) :
        /\ OpensBrace(value[i]) /\ value[i + 1] = "file" /\ value[i + 2] = "("
        /\ ExtFileEnds(value, i) # {}}

ExtFileOnlyAt(value, i) ==
    IF i = 0 THEN [found |-> FALSE, file_path |-> <<>>]
    ELSE [found |-> TRUE, file_path |-> SubSeq(value, i + 3, MaxOrZero(ExtFileEnds(value, i)) - 1)]

ext_file_search(value) == ExtFileOnlyAt(value, MinOrZero(ExtFileOnlyStarts(value)))

\* _tokenize: the scalar tokens of the serialized file that hold an
\* external file, with the marks of yaml.scan: start and end index in the
\* text and the column of the start
RECURSIVE TokensFrom(_, _)
TokensFrom(doc, index) ==
    IF doc = <<>> THEN <<>>
    ELSE LET line == Head(doc)
             start == index + line.indent + Len(line.lead)
             rest == TokensFrom(Tail(doc), index + Len(LineText(line)))
         IN IF ext_file_search(line.value).found
            THEN <<[start |-> start, end |-> start + Len(line.value),
                    column |-> line.indent + Len(line.lead),
                    file_path |-> ext_file_search(line.value).file_path]>> \o rest
            ELSE rest

tokenize(doc) == TokensFrom(doc, 0)

\* The serialized form of the files on disk
SerializedFiles ==
    (<<"/", "srv", "/", "app", "/", "table", ".", "yml">> :> <<"A", ":", " ", "1", "\n", "B", ":", " ", "2", "\n">>)
    @@ (<<"/", "srv", "/", "app", "/", "one", ".", "yml">> :> <<"x", "\n">>)

\* (' ' * offset) + elem for every element
RECURSIVE WithOffset(_, _)
WithOffset(lines, offset) ==
    IF lines = <<>> THEN <<>> ELSE <<Spaces(offset) \o Head(lines)>> \o WithOffset(Tail(lines), offset)

\* _process_format: raised when the file cannot be opened
process_format(yaml_file_full_path, offset) ==
    IF yaml_file_full_path \notin DOMAIN SerializedFiles THEN [raised |-> TRUE, value |-> <<>>]
    ELSE LET serialized_file == SerializedFiles[yaml_file_full_path]
             nl == MinOrZero(Positions(serialized_file, "\n"))
         IN IF nl = 0 THEN [raised |-> TRUE, value |-> <<>>]
            ELSE [raised |-> FALSE,
                  value |-> join(<<SubSeq(serialized_file, 1, nl - 1)>>
                                 \o WithOffset(split(SubSeq(serialized_file, nl + 1, Len(serialized_file)), "\n"), offset),
                                 "\n")]

\* Lines 224-236: the text after one token was processed
TokenReplaced(serialized_file, token, self_ref_dict) ==
    LET res_ext_file_path == resolve_value_from_yaml(token.file_path, self_ref_dict, MaxRecursion)
        to_add == process_format(get_ext_file_full_path(res_ext_file_path), token.column)
    IN IF to_add.raised THEN serialized_file
       ELSE SubSeq(serialized_file, 1, token.start) \o to_add.value
            \o SubSeq(serialized_file, token.end + 1, Len(serialized_file))

\* The loop of lines 223-240 over the tokens in the order given
RECURSIVE ExtFilesLoop(_, _, _)
ExtFilesLoop(serialized_file, tokens, self_ref_dict) ==
    IF tokens = <<>> THEN serialized_file
    ELSE ExtFilesLoop(TokenReplaced(serialized_file, Head(tokens), self_ref_dict), Tail(tokens), self_ref_dict)

\* reversed(list)
Reversed(list) == [i \in 1..Len(list) |-> list[Len(list) + 1 - i]]

\* A plausible slip: the tokens are processed from the first to the last
resolve_ext_files_Forward(doc) == ExtFilesLoop(Serialized(doc), tokenize(doc), RefDictOf(doc))

\* resolve_ext_files: the text handed to yaml.load at line 242
resolve_ext_files(doc) == ExtFilesLoop(Serialized(doc), Reversed(tokenize(doc)), RefDictOf(doc))

\* The scalars of the documents
TableYml == <<"table", ".", "yml">>
FileOnly(path) == <<"${", "file", "(">> \o path \o <<")", "}">>
TokTable == FileOnly(TableYml)
TokOne == FileOnly(<<".", "/", "one", ".", "yml">>)
TokMissing == FileOnly(<<"missing", ".", "yml">>)
TokSelf == FileOnly(<<"${", "self", ":", "tablefile", "}">>)
ExtValues == {TokTable, TokOne, TokMissing, TokSelf, <<"b">>}

\* tablefile: <name>, first: <scalar>, list: with one item <scalar>
ExtDocs ==
    {<<[indent |-> 0, lead |-> <<"tablefile", ":", " ">>, value |-> name],
       [indent |-> 0, lead |-> <<"first", ":", " ">>, value |-> v1],
       [indent |-> 0, lead |-> <<"list", ":">>, value |-> <<>>],
       [indent |-> 2, lead |-> <<"-", " ">>, value |-> v2]>> :
        name \in {TableYml, <<"missing", ".", "yml">>}, v1 \in ExtValues, v2 \in ExtValues}

\* ExtFilesManagerCls(yaml_file).resolve_ext_files()
CallResolveExtFiles ==
    /\ lib_call.fn = "none"
    /\ \E doc \in ExtDocs :
          /\ lib_call' = [fn |-> "resolve_ext_files", doc |-> doc]
          /\ lib_result' = resolve_ext_files(doc)
    /\ UNCHANGED <<apiVars, resVars, yamlVars, walkVars, permVars>>

\* The longest string the memory holds, in atoms: a longer one raises
\* MemoryError
MaxValueLen == 40

\* The loop over the substrings (lines 42-61) in a finite memory: raised
\* when a substitution makes the value longer than the memory holds
RECURSIVE SubstituteWithin(_, _, _, _)
SubstituteWithin(unres_value, substrings, config_dict, limit) ==
    IF Len(unres_value) > limit THEN [raised |-> TRUE, value |-> unres_value]
    ELSE IF substrings = <<>> THEN [raised |-> FALSE, value |-> unres_value]
    ELSE SubstituteWithin(SubstituteOne(unres_value, Head(substrings),
                                        Lookup(config_dict, split(Head(substrings), "."))),
                          Tail(substrings), config_dict, limit)

\* Reference trees with a key that refers to itself, two keys that refer to
\* each other, a key whose value holds itself once or twice, a chain that
\* ends in a literal and a reference to a missing key
CyclicValues ==
    {SelfRef(ManifestKeys[1]), SelfRef(ManifestKeys[2]), <<"b">>, SelfRef(MissingPath),
     <<"x", "-">> \o SelfRef(ManifestKeys[1]),
     TwoSpans(SelfRef(ManifestKeys[1]), SelfRef(ManifestKeys[1]))}

ReferenceTrees ==
    {(ManifestKeys[1] :> va) @@ (ManifestKeys[2] :> vb) :
        va \in CyclicValues, vb \in {SelfRef(ManifestKeys[1]), <<"b">>}}

\* The strings resolve_value_from_yaml is called with
UnresValues == {SelfRef(ManifestKeys[1]), SelfRef(ManifestKeys[2]), Wrap(SelfRef(ManifestKeys[1])), <<"b">>}

\* resolve_value_from_yaml(unres_value, config_dict): the call, with the
\* default of max_recursion
CallResolveValueFromYaml ==
    /\ lib_call.fn = "none"
    /\ \E unres_value \in UnresValues, config_dict \in ReferenceTrees :
          lib_call' = [fn |-> "resolve_value_from_yaml", pc |-> "running",
                       unres_value |-> unres_value, config_dict |-> config_dict,
                       value |-> unres_value, max_recursion |-> MaxRecursion]
    /\ UNCHANGED <<lib_result, apiVars, resVars, yamlVars, walkVars, permVars>>

\* Lines 39-63: one round, the substitutions and the recursive call
ResolveValueRound ==
    /\ lib_call.fn = "resolve_value_from_yaml"
    /\ lib_call.pc = "running"
    /\ findall_self(lib_call.value) # <<>>
    /\ lib_call.max_recursion # 0
    /\ \E r \in {SubstituteWithin(lib_call.value, findall_self(lib_call.value),
                                   lib_call.config_dict, MaxValueLen)} :
          lib_call' = IF r.raised THEN [lib_call EXCEPT !.pc = "MemoryError"]
                      ELSE [lib_call EXCEPT !.value = r.value, !.max_recursion = @ - 1]
    /\ UNCHANGED <<lib_result, apiVars, resVars, yamlVars, walkVars, permVars>>

\* Lines 64-66: nothing to resolve, or no round left
ResolveValueReturn ==
    /\ lib_call.fn = "resolve_value_from_yaml"
    /\ lib_call.pc = "running"
    /\ ~(findall_self(lib_call.value) # <<>> /\ lib_call.max_recursion # 0)
    /\ lib_call' = [lib_call EXCEPT !.pc = "returned"]
    /\ lib_result' = lib_call.value
    /\ UNCHANGED <<apiVars, resVars, yamlVars, walkVars, permVars>>

\* The plugin informations that hold handler-level permissions only, and the
\* empty one
HandlerPluginInfos == {pinfo \in PluginInfos : pinfo.config = EmptyMap}

\* PluginExtractedInfoCls.get_permissions_for_handler(handler_name,
\* service_name, keep_service_name)
CallGetPermissionsForHandler ==
    /\ lib_call.fn = "none"
    /\ \E pinfo \in HandlerPluginInfos, handler_name \in Handlers,
          service_name \in Services \cup {NoneStr}, keep_service_name \in BOOLEAN :
          /\ lib_call' = [fn |-> "get_permissions_for_handler", plugin_info |-> pinfo,
                          handler_name |-> handler_name, service_name |-> service_name,
                          keep_service_name |-> keep_service_name]
          /\ lib_result' = get_permissions_for_handler(pinfo, handler_name, service_name,
                                                       keep_service_name)
    /\ UNCHANGED <<apiVars, resVars, yamlVars, walkVars, permVars>>

NextLib ==
    \/ CallExtractConfiguration
    \/ CallGetPermissionsForHandler
    \/ CallResolveExtFiles
    \/ CallResolveValueFromYaml
    \/ ResolveValueRound
    \/ ResolveValueReturn
    \/ CallGetCloseMatch
    \/ CallAWSARNManagerCls
    \/ CallGetEventFilteringResult
    \/ CallAnalyseEventFiltering

SpecLib == InitLib /\ [][NextLib]_vars

(***************************************************************************)
(* Claims about analyse_api_permissions                                    *)
(***************************************************************************)
ApiCalled == api_result # "none"

\* C2: when the plugin information is empty or the handler name is None, the
\* verdict is True exactly when the required actions and the actions granted
\* to the service have an action in common; required {PutItem} is allowed
\* against {GetItem, PutItem} and refused against {GetItem}.
C2_BasicServiceLevel ==
    (ApiCalled /\ (api_call.plugin_info.keys = {} \/ api_call.handler_name = None))
        => /\ api_result \in {"True", "False"}
           /\ api_result = "True"
                <=> \E a \in api_call.required : a \in api_call.service_permissions
           /\ (api_call.required = {PutItem}
                 /\ api_call.service_permissions = {GetItem, PutItem})
                => api_result = "True"
           /\ (api_call.required = {PutItem} /\ api_call.service_permissions = {GetItem})
                => api_result = "False"

\* C2 witness: a call without a handler, on plugin information that holds
\* handler permissions, several required actions of which one is granted.
C2_Witness ==
    /\ ApiCalled
    /\ api_call.handler_name = None
    /\ "handlers" \in api_call.plugin_info.keys
    /\ api_call.required = {GetItem, PutItem}
    /\ api_call.service_permissions = {GetItem}
    /\ api_result = "True"

\* The plugin information holds IAMRolesPerFunction configuration and no
\* handler-level permissions, and the handler of the call is known
ConfigOnlyCall ==
    /\ ApiCalled
    /\ "handlers" \notin api_call.plugin_info.keys
    /\ IAMRolesPerFunction \in DOMAIN api_call.plugin_info.config
    /\ api_call.handler_name # None

\* C13: when the plugin information holds IAMRolesPerFunction override
\* configuration but handler-level permissions for no handler, and the
\* handler name is known, the verdict is False whatever the required
\* actions and the service permissions are.
C13_ConfigWithoutHandlers == ConfigOnlyCall => api_result = "False"

\* C13 witness: such a call that the service-level permissions alone would
\* allow has been refused
C13_Witness ==
    /\ ConfigOnlyCall
    /\ api_call.required = {PutItem}
    /\ api_call.service_permissions = {GetItem, PutItem}
    /\ api_result = "False"

\* The permissions the plugin grants a handler for a service: the actions a
\* with 'service:a' among the handler's statements (none without an entry)
HandlerActionsFor(pinfo, handler_name, service_name) ==
    IF handler_name \in DOMAIN pinfo.handlers
    THEN {a \in Actions : Perm(service_name, a) \in pinfo.handlers[handler_name]}
    ELSE {}

\* The handler's override flag in the IAMRolesPerFunction configuration
OverrideOn(pinfo, handler_name) ==
    <<handler_name, TRUE>> \in pinfo.config[IAMRolesPerFunction].Override

\* C3: with a known handler and handler-level permissions in the plugin
\* information, the verdict is (service test OR handler test) without
\* override configuration, the handler test alone when the handler's override
\* flag is on, and the test on the union when it is off; handler permissions
\* being those of that handler for the target service.
C3_HandlerLevel ==
    (ApiCalled /\ api_call.handler_name # None /\ "handlers" \in api_call.plugin_info.keys)
        => LET pinfo == api_call.plugin_info
               req == api_call.required
               svc == api_call.service_permissions
               hp == HandlerActionsFor(pinfo, api_call.handler_name, api_call.service_name)
           IN api_result =
                IF IAMRolesPerFunction \notin DOMAIN pinfo.config
                THEN Bool(req \cap svc # {} \/ req \cap hp # {})
                ELSE IF OverrideOn(pinfo, api_call.handler_name)
                THEN Bool(req \cap hp # {})
                ELSE Bool(req \cap (svc \cup hp) # {})

(***************************************************************************)
(* Claims about analyse_resource_level_permissions                         *)
(*                                                                         *)
(* The claims are stated against what the manifest and the handler mean,   *)
(* written out case by case for the keys and the arguments of the model.   *)
(***************************************************************************)
ResCalled == res_result # "none"

\* The node the call passes for a resource argument: <<node>>, or <<>> when
\* the call does not pass the argument
PassedAs(arg) ==
    LET call == handler_source.call
    IN IF arg.id \in DOMAIN call.keywords THEN <<call.keywords[arg.id]>>
       ELSE IF arg.pos = "0" /\ Len(call.args) >= 1 THEN <<call.args[1]>>
       ELSE <<>>

\* The string a passed node stands for, when the tool can know it: a string
\* literal; TABLE, which the handler's environment sets to T, read with
\* os.getenv, with os.environ under ast.Index, or through the variable tbl
\* of a file that holds nothing but its assignment
StandsFor(node) ==
    IF node.kind = "ConstantStr" THEN {node.value}
    ELSE IF node.kind = "Getenv" /\ node.value = <<"TABLE">> THEN {<<"T">>}
    ELSE IF node.kind = "Environ" /\ node.slice = "Index" THEN {<<"T">>}
    ELSE IF node.kind = "Name" /\ handler_source.sc_file = <<AssignTbl>> THEN {<<"T">>}
    ELSE {}

\* The key names a resource of the service that the value identifies
Designates(key, service, value) ==
    \/ key = ArnTableT /\ service = dynamodb /\ value \in {<<"T">>, <<"table">>}
    \/ key = ArnTableU /\ service = dynamodb /\ value \in {<<"U">>, <<"table">>}
    \/ key = ArnBucketB /\ service = s3 /\ value = <<"B">>
    \/ key = ArnIndexT /\ service = dynamodb /\ value \in {<<"T">>, <<"table">>, <<"index">>, <<"X">>}

\* Positions of the index keys that designate the value
DesignatingKeys(value) ==
    {k \in 1..Len(manifest_perm_res_dict) :
        Designates(manifest_perm_res_dict[k].key, res_call.service_name, value)}

\* The actions an index entry grants for the target service meet the
\* required actions
Grants(entry) ==
    \E a \in res_call.required : <<res_call.service_name, a>> \in entry.perms

\* The arguments of the last call that the loop reached and whose value is
\* known
KnownArgs ==
    {i \in 1..Len(arg_verdicts) :
        /\ arg_verdicts[i] # "unreached"
        /\ PassedAs(res_call.resources_info[i]) # <<>>
        /\ StandsFor(PassedAs(res_call.resources_info[i])[1]) # {}}

ValueOf(i) == CHOOSE v \in StandsFor(PassedAs(res_call.resources_info[i])[1]) : TRUE

\* The call put_item(TableName="T") checked for dynamodb PutItem
PutItemOnT ==
    /\ handler_source.call = [keywords |-> ("TableName" :> Node("ConstantStr", <<"T">>, "None")), args |-> <<>>]
    /\ res_call = [required |-> {PutItem}, service_name |-> dynamodb, resources_info |-> <<TableNameArg>>]

\* C4: an argument that is a string literal or resolves to a string, and for
\* which close-match finds a key, gets the verdict True exactly when the
\* actions recorded under that key for the target service meet the required
\* actions; put_item(TableName="T") is allowed by an index that grants
\* PutItem on table/T and denied by one that holds only another, fully
\* resolved table.
C4_MatchVerdict ==
    ResCalled =>
        /\ \A i \in KnownArgs :
              DesignatingKeys(ValueOf(i)) # {}
                  => arg_verdicts[i] =
                         Bool(Grants(manifest_perm_res_dict[SetMin(DesignatingKeys(ValueOf(i)))]))
        /\ (PutItemOnT /\ manifest_perm_res_dict = <<[key |-> ArnTableT, perms |-> {<<dynamodb, PutItem>>}]>>)
              => res_result = "True"
        /\ (PutItemOnT /\ manifest_perm_res_dict = <<[key |-> ArnTableU, perms |-> {<<dynamodb, PutItem>>}]>>)
              => res_result = "False"

\* C4 witness: TableName resolves to T through the environment, the index
\* holds table/T with actions of two services, and the verdict is False
\* because the required action is recorded for the other service only.
C4_Witness ==
    /\ ResCalled
    /\ res_call.required = {PutItem} /\ res_call.service_name = dynamodb
    /\ res_call.resources_info = <<TableNameArg>>
    /\ "TableName" \in DOMAIN handler_source.call.keywords
    /\ handler_source.call.keywords["TableName"] = Node("Getenv", <<"TABLE">>, "None")
    /\ manifest_perm_res_dict = <<[key |-> ArnTableT, perms |-> {<<s3, PutItem>>, <<dynamodb, GetItem>>}]>>
    /\ arg_verdicts = <<"False">>

\* C5: an argument whose value is known and that no key of the index
\* matches gets the verdict False when every key of the index is fully
\* resolved, and True when some key still holds an unresolved template.
C5_NoMatchVerdict ==
    ResCalled =>
        \A i \in KnownArgs :
            DesignatingKeys(ValueOf(i)) = {}
                => arg_verdicts[i] =
                       Bool(\E k \in 1..Len(manifest_perm_res_dict) :
                                manifest_perm_res_dict[k].key = ArnTableUnres)

\* C5 witness: TableName="T" against an index that holds table/U and an
\* unresolved key; the argument is judged True.
C5_Witness ==
    /\ ResCalled
    /\ PutItemOnT
    /\ manifest_perm_res_dict = <<[key |-> ArnTableU, perms |-> {<<dynamodb, PutItem>>}],
                                  [key |-> ArnTableUnres, perms |-> {<<dynamodb, PutItem>>}]>>
    /\ arg_verdicts = <<"True">>

\* The index has a '*' entry whose actions for the target service meet the
\* required actions
StarGrants ==
    \E k \in 1..Len(manifest_perm_res_dict) :
        manifest_perm_res_dict[k].key = Star /\ Grants(manifest_perm_res_dict[k])

\* The verdict the contract gives an argument: none for an argument the call
\* does not pass, True for one whose value cannot be known
ContractVerdict(arg) ==
    LET passed == PassedAs(arg)
    IN IF passed = <<>> THEN "none"
       ELSE IF StandsFor(passed[1]) = {} THEN "True"
       ELSE LET value == CHOOSE v \in StandsFor(passed[1]) : TRUE
            IN IF DesignatingKeys(value) # {}
               THEN Bool(Grants(manifest_perm_res_dict[SetMin(DesignatingKeys(value))]))
               ELSE Bool(\E k \in 1..Len(manifest_perm_res_dict) :
                             manifest_perm_res_dict[k].key = ArnTableUnres)

\* C6: the result is True when the API declares no resource argument; an
\* argument that the call does not pass or whose value cannot be resolved
\* never makes the result False; and without the wildcard shortcut the
\* result is the conjunction of the arguments' verdicts.
C6_Conjunction ==
    ResCalled =>
        /\ res_call.resources_info = NoneInfo => res_result = "True"
        /\ (res_call.resources_info # NoneInfo /\ ~StarGrants)
              => res_result =
                     Bool(\A i \in 1..Len(res_call.resources_info) :
                              ContractVerdict(res_call.resources_info[i]) # "False")

\* C7: when the API declares resource arguments and the index has a '*' key
\* whose actions for the target service meet the required actions, the
\* result is True whatever the arguments and the other keys are; when the
\* '*' entry's actions do not meet them, the arguments are still examined.
C7_Wildcard ==
    (ResCalled /\ res_call.resources_info # NoneInfo) =>
        /\ StarGrants => res_result = "True"
        /\ ~StarGrants => arg_verdicts[1] # "unreached"

\* C7 witness: a '*' entry that grants the action, after a key for another
\* table, and a call on table T that no key matches: the result is True.
C7_Witness ==
    /\ ResCalled
    /\ PutItemOnT
    /\ manifest_perm_res_dict = <<[key |-> ArnTableU, perms |-> {<<dynamodb, PutItem>>}],
                                  [key |-> Star, perms |-> {<<dynamodb, PutItem>>, <<dynamodb, GetItem>>}]>>
    /\ res_result = "True"

(***************************************************************************)
(* Claims about the manifest resolver                                      *)
(***************************************************************************)
\* The _process_value calls _visit has made
Visits == 1..Len(visited)

\* The file references of the model that an external file resolves: the
\* file exists next to the manifest, its extension is supported and it
\* holds the key
FileHolds(file, key) ==
    /\ file \in {VarsJson, <<".", "/">> \o VarsJson}
    /\ key = <<"key">>

\* The scalars whose expression a reference tree cannot resolve and for
\* which the external-file resolution does not apply or fails
UnresolvableSpans(tree) ==
    {SelfRef(path) : path \in RefPaths \ DOMAIN tree}
    \cup {OptRef(x, path) : x \in OptNames, path \in RefPaths \ DOMAIN tree}
    \cup {FileRef(fk[1], fk[2]) : fk \in {pair \in FileNames \X FileKeys : ~FileHolds(pair[1], pair[2])}}

Unresolvable(tree) == UnresolvableSpans(tree) \cup {Wrap(span) : span \in UnresolvableSpans(tree)}

\* C8: whenever the expression of a scalar cannot be looked up in the
\* reference tree and the external-file resolution is not applicable or
\* fails, _process_value returns the scalar as it was, so that
\* check_if_resolved on the result is False.
C8_LeftUntouched ==
    \A n \in Visits :
        visited[n].value \in Unresolvable(visited[n].ref_dict)
        => /\ visited[n].result = visited[n].value
           /\ ~check_if_resolved(visited[n].result)

\* The manifest a: ${self:b}, b: ${self:c}, c: a literal
ChainManifest ==
    /\ yaml_file[1].value = SelfRef(ManifestKeys[2])
    /\ yaml_file[2].value = SelfRef(ManifestKeys[3])
    /\ yaml_file[3].value \in Literals

C10_FallbackOnly ==
    \A n \in Visits : \A x \in OptNames : \A path \in RefPaths :
        (visited[n].value = OptRef(x, path) /\ path \in DOMAIN visited[n].ref_dict)
        => visited[n].result = visited[n].ref_dict[path]

\* A scalar with a primary branch that names a key of the tree has been
\* resolved to the value of its fallback
C10_Witness ==
    \E n \in Visits :
        /\ visited[n].value = OptRef(<<"custom", ".", "c">>, ManifestKeys[3])
        /\ visited[n].ref_dict[ManifestKeys[3]] = <<"b">>
        /\ visited[n].result = <<"b">>

\* The spans of the model that a reference tree and the files resolve, each
\* with the value it resolves to: a tree lookup, a fallback that is a tree
\* lookup, a fallback that is a literal, and a key of an external file
ResolvedSpans(tree) ==
    {<<SelfRef(ManifestKeys[3]), tree[ManifestKeys[3]]>>,
     <<OptRef(<<"stage">>, ManifestKeys[3]), tree[ManifestKeys[3]]>>,
     <<OptLiteral(<<"stage">>, <<"b">>), <<"b">>>>,
     <<FileRef(VarsJson, <<"key">>), <<"V">>>>}

\* C11: for a scalar with text before and after a resolvable span the
\* result of _process_value is the text before, the resolved value and the
\* text after, whichever way the span is resolved (tree lookup, fallback,
\* key of an external file), and a scalar with two resolvable spans comes
\* back with both substituted.
C11_PrefixResolvedSuffix ==
    \A n \in Visits : \A span \in ResolvedSpans(visited[n].ref_dict) :
        /\ visited[n].value = Wrap(span[1]) => visited[n].result = Wrap(span[2])
        /\ visited[n].value = TwoSpans(span[1], span[1])
               => visited[n].result = TwoSpans(span[2], span[2])

\* ${self:custom.${self:custom.c}} and ${file(vars.json):${self:custom.c}}
NestedSelfRef == <<"${", "self", ":", "custom", ".">> \o SelfRef(ManifestKeys[3]) \o <<"}">>
NestedFileKey == FileRef(VarsJson, SelfRef(ManifestKeys[3]))

\* The inner reference of the nested scalars resolves to a name v: the
\* tree holds custom.v, and vars.json holds the key v
InnerNames(tree) ==
    {v \in Literals : tree[ManifestKeys[3]] = v}

ChecksOf(k) == {n \in 1..Len(call_log) : call_log[n].child = k}

\* What analyse_resource_level_permissions returns for the call of an API
\* of the configuration file
ResourceLevelVerdict(api_name) ==
    analyse_resource_level_permissions(
        walker.config_dict[api_name].permissions, manifest_perm_res_dict, InterfService,
        walker.config_dict[api_name].resources, handler_source.call, WalkInfrastrucCodeDict,
        get_handler_from_function(WalkInfrastrucCodeDict, walker.function_name),
        handler_source.sc_file).result

\* What analyse_event_filtering returns for the call and a handler
EventFilterVerdict(api_name, handler_name) ==
    analyse_event_filtering(InterfService, walker.config_dict[api_name].events_filtering,
                            handler_source.call, WalkInfrastrucCodeDict, handler_name,
                            handler_source.sc_file)

\* The handler is subscribed to an event the API triggers
Subscribed(api_name, handler_name) ==
    /\ handler_name \in DOMAIN walker.handlers_dict
    /\ \E n \in 1..Len(walker.config_dict[api_name].events) :
          <<InterfService, walker.config_dict[api_name].events[n]>>
              \in walker.handlers_dict[handler_name]

\* Statement k holds a supported API call whose service-level verdict and
\* resource-level verdict are True, and the event-filter verdict for the
\* handler is True
ThreeVerdictsTrue(k, handler_name) ==
    \E n \in ChecksOf(k) :
        /\ call_log[n].service = "True"
        /\ ResourceLevelVerdict(call_log[n].api) = "True"
        /\ EventFilterVerdict(call_log[n].api, handler_name) = "True"

SubscribedTo(k, handler_name) ==
    \E n \in ChecksOf(k) : Subscribed(call_log[n].api, handler_name)

\* pre_body_name is past statement k of the list it walks
Walked(k) ==
    \/ walk_state.pc = "done"
    \/ walk_state.pc = "child" /\ k < walk_state.i

\* C1: a handler's invocation is injected after the API call of a statement
\* only if the call's service-level verdict and resource-level verdict are
\* True and the event-filter verdict for that handler is True; and once the
\* walker is past a statement with a supported API call whose three verdicts
\* are True, the invocation of every handler subscribed to the call's event
\* has been injected.
C1_InjectedIffVerdictsTrue ==
    \A k \in 1..Len(walk_state.body_copy), handler_name \in Handlers :
        /\ <<k, handler_name>> \in injected => ThreeVerdictsTrue(k, handler_name)
        /\ Walked(k) /\ ThreeVerdictsTrue(k, handler_name) /\ SubscribedTo(k, handler_name)
               => <<k, handler_name>> \in injected

(***************************************************************************)
(* Claims about PermissionsIdentifierCls                                   *)
(*                                                                         *)
(* The claims are stated against the statements the manifest holds; a      *)
(* service-level query only inserts empty sets in perm_dict, so the        *)
(* contents of the indexes can be read at any time after construction.     *)
(***************************************************************************)
\* The statements of the manifest's policy: the modern list when there is
\* one, otherwise the legacy list
PolicyOf(config) ==
    IF config.modern.kind = "list" THEN config.modern.statements
    ELSE config.legacy.statements

\* The policy is a list of statements, under the modern tag or, without a
\* modern tag that holds anything else, under the legacy one
PolicyIsList(config) ==
    \/ config.modern.kind = "list"
    \/ config.modern.kind \in {"absent", "no_statements"} /\ config.legacy.kind = "list"

IsAllow(st) == st.has_effect /\ st.effect = "Allow"

\* The statement lists 'service:a' under Action
Lists(st, service, a) == st.has_action /\ Perm(service, a) \in Range(st.action)

\* The key a statement's Resource has in the index
ResolvedKey(st) == resolve_value_from_yaml(st.resource, ConfigDictOf(iam_config), MaxRecursion)

\* What the index holds under a key, nothing when the key is missing
ItemOrEmpty(permission_resource_dict, key) ==
    IF key \in Keys(permission_resource_dict) THEN Item(permission_resource_dict, key) ELSE {}

ResourceKeys == {ArnTableT, ArnTableUnres, ArnBucketB, Star}

\* C14: for a policy given as a list of statements, each with an Effect and
\* an Action, perm_dict[service] contains action a if and only if some Allow
\* statement lists service:a, and perm_res_dict holds (service, a) under a
\* resource if and only if some Allow statement with that Resource lists
\* service:a; a statement whose Effect is not Allow adds nothing.
C14_IndexesMatchAllowStatements ==
    /\ identifier.pc = "done"
    /\ PolicyIsList(iam_config)
    /\ \A st \in Range(PolicyOf(iam_config)) : st.has_effect /\ st.has_action
    =>
        /\ \A service \in Services, a \in Actions :
              a \in PermDictGet(identifier.perm_dict, service)
                  <=> \E st \in Range(PolicyOf(iam_config)) :
                          IsAllow(st) /\ Lists(st, service, a)
        /\ \A key \in ResourceKeys, service \in Services, a \in Actions :
              <<service, a>> \in ItemOrEmpty(identifier.perm_res_dict, key)
                  <=> \E st \in Range(PolicyOf(iam_config)) :
                          /\ IsAllow(st) /\ Lists(st, service, a)
                          /\ st.has_resource /\ ResolvedKey(st) = key

\* The indexes hold what the constructor extracts from a list of statements
IndexesOf(statements) ==
    Constructed([modern |-> ListOf(statements), legacy |-> NoStatements,
                 custom |-> iam_config.custom])

SameIndexes(built, expected) ==
    /\ \A service \in Services \cup {PermStar} :
          PermDictGet(built.perm_dict, service) = PermDictGet(expected.perm_dict, service)
    /\ built.perm_res_dict = expected.perm_res_dict

\* C15: the statements are read from provider.iam.role.statements when that
\* path exists, otherwise from provider.iamRoleStatements; when neither
\* exists both indexes are empty, and every later service-level query
\* without plugin information answers False.
C15_ModernThenLegacy ==
    identifier.pc = "done" =>
        /\ iam_config.modern.kind = "list"
              => SameIndexes(identifier, IndexesOf(iam_config.modern.statements))
        /\ iam_config.modern.kind # "list" /\ iam_config.legacy.kind = "list"
              => SameIndexes(identifier, IndexesOf(iam_config.legacy.statements))
        /\ iam_config.modern.kind # "list" /\ iam_config.legacy.kind # "list"
              => /\ SameIndexes(identifier, IndexesOf(<<>>))
                 /\ identifier.perm_res_dict = <<>>
                 /\ api_call # NoCall => api_result = "False"

\* An Allow statement whose actions all read service:action
WellFormedAllow(st) ==
    /\ IsAllow(st) /\ st.has_action
    /\ \A n \in 1..Len(st.action) : Len(split(st.action[n], ":")) = 2

\* A Deny statement, or a statement without Effect or without Action
Skippable(st) == ~IsAllow(st) \/ ~st.has_action

\* C16: a Deny statement or a statement without Effect or Action is skipped
\* without aborting the extraction: every well-formed Allow statement of
\* the list, before or after it, is present in both indexes.
C16_SkippedWithoutAborting ==
    /\ identifier.pc = "done"
    /\ PolicyIsList(iam_config)
    /\ \A st \in Range(PolicyOf(iam_config)) : WellFormedAllow(st) \/ Skippable(st)
    => \A st \in Range(PolicyOf(iam_config)) :
           WellFormedAllow(st) =>
               \A n \in 1..Len(st.action) :
                   /\ split(st.action[n], ":")[2]
                          \in PermDictGet(identifier.perm_dict, split(st.action[n], ":")[1])
                   /\ st.has_resource
                          => <<split(st.action[n], ":")[1], split(st.action[n], ":")[2]>>
                                 \in ItemOrEmpty(identifier.perm_res_dict, ResolvedKey(st))

(***************************************************************************)
(* Claims about get_close_match and AWSARNManagerCls                       *)
(***************************************************************************)
\* The key is the ARN of a resource of the service, and the candidate is
\* its resource id or one of the segments of the resource id.  The wildcard
\* and the key with an unresolved template are not ARNs.
Qualifies(key, candidate, service) ==
    \/ key = ArnTableT /\ service = dynamodb
           /\ candidate \in {<<"T">>, <<"table">>, <<"table", "/", "T">>}
    \/ key = ArnTableU /\ service = dynamodb
           /\ candidate \in {<<"U">>, <<"table">>, <<"table", "/", "U">>}
    \/ key = ArnBucketB /\ service = s3 /\ candidate = <<"B">>

\* Positions of the keys of the last call's index that qualify
QualifyingKeys ==
    {i \in 1..Len(lib_call.permission_resource_dict) :
        Qualifies(lib_call.permission_resource_dict[i].key, lib_call.resource_to_match,
                  lib_call.service)}

\* C17: get_close_match returns a key only if the ARN of the key has the
\* target service and its resource id equals the candidate or has the
\* candidate as one of its segments; it returns None when no key qualifies,
\* and the key inserted first when several do.
C17_FirstQualifyingKey ==
    lib_call.fn = "get_close_match" =>
        /\ lib_result.isNone <=> QualifyingKeys = {}
        /\ ~lib_result.isNone
               => lib_result.key = lib_call.permission_resource_dict[SetMin(QualifyingKeys)].key

\* Two keys of the index qualify and the first was returned
C17_Witness ==
    /\ lib_call.fn = "get_close_match"
    /\ Cardinality(QualifyingKeys) = 2
    /\ lib_result.key = lib_call.permission_resource_dict[1].key

\* The colon-separated segments of the string of the last call
ArnSegmentsOf == split(lib_call.arn, ":")

FieldsFrom(parts) ==
    [partition |-> parts[2], service |-> parts[3], region |-> parts[4],
     account_id |-> parts[5], resource_id |-> parts[6]]

\* C18 as stated: a string with exactly six colon-separated segments
\* decomposes into the fields from segments 2 to 6 and is_valid() is True;
\* any other string yields five empty fields and is_valid() False.
C18_ValidIffSixSegments ==
    lib_call.fn = "AWSARNManagerCls" =>
        IF Len(ArnSegmentsOf) = ArnPartsNum
        THEN lib_result.data = FieldsFrom(ArnSegmentsOf) /\ lib_result.is_valid
        ELSE lib_result.data = AWSARNDataCls /\ ~lib_result.is_valid

\* C18, amended: for a string without a #{provider::parameter}, six
\* segments give the fields from segments 2 to 6, any other number five
\* empty fields, and is_valid() is True if and only if some field is not
\* empty; the string with #{AWS::Region} as its region is read with the
\* region AWSRegion, and is valid.
C18_SixSegmentsAfterSanitizing ==
    lib_call.fn = "AWSARNManagerCls" =>
        /\ lib_result.is_valid <=> lib_result.data # AWSARNDataCls
        /\ ~Contains(lib_call.arn, "#{") =>
              IF Len(ArnSegmentsOf) = ArnPartsNum
              THEN lib_result.data = FieldsFrom(ArnSegmentsOf)
              ELSE lib_result.data = AWSARNDataCls
        /\ lib_call.arn = ArnTableU =>
              lib_result.data = [partition |-> <<"aws">>, service |-> dynamodb,
                                 region |-> <<"AWS", "Region">>, account_id |-> <<"*">>,
                                 resource_id |-> <<"table", "/", "U">>]

\* A string of six segments was decomposed and is valid
C18_Witness ==
    /\ lib_call.fn = "AWSARNManagerCls"
    /\ Len(ArnSegmentsOf) = ArnPartsNum
    /\ lib_result.is_valid
    /\ lib_result.data.resource_id # <<>>

(***************************************************************************)
(* Claims about event filtering                                            *)
(*                                                                         *)
(* The claims are stated against the rules the manifest holds for the      *)
(* handler, whichever entry of events and whichever rule they are in.      *)
(***************************************************************************)
\* The prefixes or the suffixes configured for the handler's s3 events
Configured(infrastruc_code_dict, handler_name, kind) ==
    {infrastruc_code_dict[p] :
        p \in {q \in DOMAIN infrastruc_code_dict :
                  /\ Len(q) = 8
                  /\ SubSeq(q, 1, 3) = <<<<"functions">>, <<handler_name>>, <<"events">>>>
                  /\ SubSeq(q, 5, 6) = <<<<"s3">>, <<"rules">>>>
                  /\ q[8] = <<kind>>}}

DeclaresRules(infrastruc_code_dict, handler_name) ==
    Configured(infrastruc_code_dict, handler_name, "prefix")
        \cup Configured(infrastruc_code_dict, handler_name, "suffix") # {}

\* The input starts with every configured prefix and ends with every
\* configured suffix
SatisfiesRules(input_to_check, infrastruc_code_dict, handler_name) ==
    /\ \A prefix \in Configured(infrastruc_code_dict, handler_name, "prefix") :
          startswith(input_to_check, prefix)
    /\ \A suffix \in Configured(infrastruc_code_dict, handler_name, "suffix") :
          endswith(input_to_check, suffix)

\* The manifest with the prefix rule uploads/ and the suffix rule .txt
PrefixAndSuffixRules ==
    (RuleAt(HandlerNames[1], 1, 1, "prefix") :> UploadsPrefix)
        @@ (RuleAt(HandlerNames[1], 1, 2, "suffix") :> TxtSuffix)

\* The declared filtering arguments the last call passes as a string
\* literal, and their values
LiteralArgs ==
    {i \in 1..Len(lib_call.event_filtering_info) :
        /\ lib_call.event_filtering_info[i].id \in DOMAIN lib_call.api_call_ast_node.keywords
        /\ lib_call.api_call_ast_node.keywords[lib_call.event_filtering_info[i].id].kind
               = "ConstantStr"}

LiteralOf(i) == lib_call.api_call_ast_node.keywords[lib_call.event_filtering_info[i].id].value

\* C19: for a handler whose s3 event declares rules, a literal input passes
\* only if it starts with every configured prefix and ends with every
\* configured suffix (with prefix uploads/ and suffix .txt the key
\* uploads/my-file.txt passes, uploads/my-file.jpg and
\* upload-folder/my-file.txt fail); and analyse_event_filtering returns True
\* only if every declared filtering argument passes.
C19_PassesOnlyIfAllRules ==
    /\ lib_call.fn = "get_event_filtering_result"
           /\ DeclaresRules(lib_call.infrastruc_code_dict, lib_call.handler_name)
           /\ lib_result = "True"
       => SatisfiesRules(lib_call.input_to_check, lib_call.infrastruc_code_dict,
                         lib_call.handler_name)
    /\ lib_call.fn = "get_event_filtering_result"
           /\ lib_call.infrastruc_code_dict = PrefixAndSuffixRules
           /\ lib_call.handler_name = HandlerNames[1]
       => lib_result = Bool(lib_call.input_to_check = UploadsTxt)
    /\ lib_call.fn = "analyse_event_filtering"
           /\ lib_call.service_name = s3
           /\ lib_call.event_filtering_info # NoneInfo
           /\ lib_result = "True"
       => \A i \in LiteralArgs :
              SatisfiesRules(LiteralOf(i), lib_call.infrastruc_code_dict, lib_call.handler_name)

\* The file holds a simple assignment of a string literal to the variable
SimplyAssigned(sc_file, var) ==
    \E i \in 1..Len(sc_file) :
        sc_file[i].target_is_name /\ sc_file[i].id = var /\ sc_file[i].value.kind = "ConstantStr"

\* A declared argument the call says nothing conclusive about: absent,
\* neither a string literal nor a name, or a variable without a simple
\* string-literal assignment
ArgInconclusive(arg) ==
    \/ arg.id \notin DOMAIN lib_call.api_call_ast_node.keywords
    \/ lib_call.api_call_ast_node.keywords[arg.id].kind \notin {"ConstantStr", "Name"}
    \/ /\ lib_call.api_call_ast_node.keywords[arg.id].kind = "Name"
       /\ ~SimplyAssigned(lib_call.sc_file, lib_call.api_call_ast_node.keywords[arg.id].value)

\* The inconclusive cases of the last call
Inconclusive ==
    \/ lib_call.event_filtering_info = NoneInfo
    \/ \A i \in 1..Len(lib_call.event_filtering_info) :
          ArgInconclusive(lib_call.event_filtering_info[i])
    \/ lib_call.service_name # s3
    \/ ~DeclaresRules(lib_call.infrastruc_code_dict, lib_call.handler_name)

\* C20: analyse_event_filtering returns True, and raises nothing, in every
\* inconclusive case: no filtering information, an absent argument, an
\* argument that is neither a string literal nor a name, a variable without
\* a simple string-literal assignment whatever else the file assigns, and a
\* handler without rule data for the service, a service without a
\* registered function included.
C20_InconclusiveIsTrue ==
    lib_call.fn = "analyse_event_filtering" /\ Inconclusive => lib_result = "True"

(***************************************************************************)
(* Claims about the plugin information                                     *)
(***************************************************************************)
\* The tag is present and says that the statements are inherited
Inherits(tag) == tag \in {"true", "TRUE"}

\* The override flag the manifest means for a handler
MeantOverride(config, handler) ==
    IF config.inherit[handler] # "absent" THEN ~Inherits(config.inherit[handler])
    ELSE IF config.default_inherit # "absent" THEN ~Inherits(config.default_inherit)
    ELSE TRUE

\* C21: for every handler under functions, the Override set holds exactly
\* one pair (handler, flag); flag is the negation of the handler's
\* iamRoleStatementsInherit when that tag is present, otherwise the negation
\* of defaultInherit when present, otherwise True.
C21_OneOverridePairPerHandler ==
    lib_call.fn = "extract_configuration" =>
        /\ \A handler \in Handlers :
              {pair \in lib_result.Override : pair[1] = handler}
                  = {<<handler, MeantOverride(lib_call.config, handler)>>}
        /\ \A pair \in lib_result.Override : pair[1] \in Handlers

\* A handler inherits by its own tag while the default says otherwise, and
\* another handler follows the default
C21_Witness ==
    /\ lib_call.fn = "extract_configuration"
    /\ lib_call.config.default_inherit = "false"
    /\ <<HandlerNames[1], FALSE>> \in lib_result.Override
    /\ <<HandlerNames[2], TRUE>> \in lib_result.Override
    /\ lib_call.config.inherit[HandlerNames[2]] = "absent"

\* The service part and the action part of a permission service:action
ServicePart(permission) == SubSeq(permission, 1, SetMin(Positions(permission, ":")) - 1)
ActionPart(permission) == SubSeq(permission, SetMin(Positions(permission, ":")) + 1, Len(permission))

\* The permissions stored for a handler, none for a handler without entry
StoredPermissions(pinfo, handler_name) ==
    IF handler_name \in DOMAIN pinfo.handlers THEN pinfo.handlers[handler_name] ELSE {}

\* The stored permissions of a service, all of them for service None
PermissionsOfService(pinfo, handler_name, service_name) ==
    {permission \in StoredPermissions(pinfo, handler_name) :
        service_name = NoneStr \/ ServicePart(permission) = service_name}

\* C22: get_permissions_for_handler returns a set, exactly the handler's
\* permissions whose service part equals the service (all when the service is
\* None), without the service: prefix when keep_service_name is False; the
\* empty set when the handler has no permission for the service.
C22_ExactlyServicePermissions ==
    lib_call.fn = "get_permissions_for_handler" =>
        LET expected == PermissionsOfService(lib_call.plugin_info, lib_call.handler_name,
                                             lib_call.service_name)
        IN /\ ~lib_result.isNone
           /\ lib_result.result = IF lib_call.keep_service_name THEN expected
                                  ELSE {ActionPart(permission) : permission \in expected}

\* What the three queries of the indexes return
IndexQueries(ident, pinfo) ==
    <<get_num_of_services(ident), has_handlers_permissions(pinfo),
      has_config_params_for_plugin(pinfo, IAMRolesPerFunction).result>>

\* C23: queries do not change the indexes: a permission check on the
\* constructed index leaves the results of get_num_of_services(),
\* has_handlers_permissions() and has_config_params_for_plugin() as they
\* were, hence as they were right after construction.
C23_QueriesKeepIndexes ==
    [][identifier.pc = "done" =>
          IndexQueries(identifier', plugin_info') = IndexQueries(identifier, plugin_info)]_vars

(***************************************************************************)
(* Claims about the resolution of templates                                *)
(***************************************************************************)
\* The call of resolve_value_from_yaml is under way or over
Resolving == lib_call.fn = "resolve_value_from_yaml"

\* A reference of the value is found in the tree: the value is not, and
\* will not be, fully resolved
RefersIntoTree(value, tree) ==
    \E i \in 1..Len(findall_self(value)) : Lookup(tree, split(findall_self(value)[i], ".")).ok

ScalarsOf(tree) == {tree[p] : p \in DOMAIN tree}

\* What a second run of the resolver makes of a tree
SecondRun(tree) == [p \in DOMAIN tree |-> process_value(tree[p], tree)]

\* C25: resolve_yaml is idempotent on fully resolved input: when no scalar
\* of the manifest holds ${ the returned tree equals the manifest's, and a
\* second run on a returned tree without ${ substitutes nothing.
C25_IdempotentOnResolved ==
    resolved_yaml # <<>> =>
        /\ check_if_resolved_all(ScalarsOf(TreeOf(yaml_file)))
               => resolved_yaml[1] = TreeOf(yaml_file)
        /\ check_if_resolved_all(ScalarsOf(resolved_yaml[1]))
               => SecondRun(resolved_yaml[1]) = resolved_yaml[1]

\* A run that made a substitution and left no ${
C25_Witness ==
    /\ resolved_yaml # <<>>
    /\ resolved_yaml[1] # TreeOf(yaml_file)
    /\ check_if_resolved_all(ScalarsOf(resolved_yaml[1]))
    /\ SecondRun(resolved_yaml[1]) = resolved_yaml[1]

(***************************************************************************)
(* Claims about handlers without handler-level permissions                 *)
(***************************************************************************)
\* A call for a handler that has no entry in the handler-level permissions
\* while another handler has one
NoEntryCall ==
    /\ api_call # NoCall
    /\ api_call.handler_name \in Handlers
    /\ api_call.plugin_info.handlers # EmptyMap
    /\ api_call.handler_name \notin DOMAIN api_call.plugin_info.handlers

\* The plugin's configuration holds the override flag on for the handler
OverridesServiceLevel(call) ==
    /\ IAMRolesPerFunction \in DOMAIN call.plugin_info.config
    /\ OverrideOn(call.plugin_info, call.handler_name)

\* C26: analyse_api_permissions returns a Boolean for every handler name; for
\* a handler without entry in the handler-level permissions the result is the
\* basic service-level test when its override flag is off and False when it
\* is on.
C26_BooleanForEveryHandler ==
    api_call # NoCall =>
        /\ api_result \in {"True", "False"}
        /\ NoEntryCall =>
              api_result = IF OverridesServiceLevel(api_call) THEN "False"
                           ELSE Bool(ServiceLevelTest(api_call.required,
                                                      api_call.service_permissions))

(***************************************************************************)
(* Claims about resolve_ext_files                                          *)
(***************************************************************************)
\* The text of the file a scalar of the document names, <<>> when the
\* scalar names no file that can be read
ContentOf(value, doc) ==
    CASE value = TokTable -> <<"A", ":", " ", "1", "\n", "B", ":", " ", "2", "\n">>
      [] value = TokOne -> <<"x", "\n">>
      [] value = TokSelf /\ doc[1].value = TableYml -> <<"A", ":", " ", "1", "\n", "B", ":", " ", "2", "\n">>
      [] OTHER -> <<>>

\* A text with every line after the first moved right by a column
RECURSIVE Reindented(_, _)
Reindented(text, column) ==
    IF ~Contains(text, "\n") THEN text
    ELSE LET nl == SetMin(Positions(text, "\n"))
         IN SubSeq(text, 1, nl) \o Spaces(column)
            \o Reindented(SubSeq(text, nl + 1, Len(text)), column)

\* Every token that can be resolved replaced at once
RECURSIVE ReplacedAtOnce(_, _)
ReplacedAtOnce(lines, doc) ==
    IF lines = <<>> THEN <<>>
    ELSE LET line == Head(lines)
             content == ContentOf(line.value, doc)
         IN Spaces(line.indent) \o line.lead
            \o (IF content = <<>> THEN line.value
                ELSE Reindented(content, line.indent + Len(line.lead)))
            \o <<"\n">> \o ReplacedAtOnce(Tail(lines), doc)

\* C27: the text resolve_ext_files ends with equals the manifest's with
\* every token whose file can be read replaced at once by the file's content
\* re-indented to the token's column; a token whose file cannot be read is
\* left as it was while the others are replaced.
C27_ReplacedFromLastToFirst ==
    lib_call.fn = "resolve_ext_files" => lib_result = ReplacedAtOnce(lib_call.doc, lib_call.doc)

\* Two tokens of different length are replaced and a third one is left
C27_Witness ==
    /\ lib_call.fn = "resolve_ext_files"
    /\ lib_call.doc[2].value = TokTable
    /\ lib_call.doc[4].value = TokSelf
    /\ lib_call.doc[1].value = TableYml
    /\ lib_result # Serialized(lib_call.doc)

(***************************************************************************)
(* Claims about the two indexes of PermissionsIdentifierCls                *)
(***************************************************************************)
\* perm_res_dict as extract_perm_for_resources leaves it, before
\* resolve_resources
BeforeResolution(config) == extract_perm_for_resources(<<>>, get_perm_dict_info(config))

\* C28: resolve_resources keeps every permission: each (service, action)
\* recorded under a resource key before the keys are resolved is recorded
\* under the key's resolved form afterwards, also when two keys resolve to
\* the same string.
C28_ResolveKeepsPermissions ==
    identifier.pc = "done" =>
        \A i \in 1..Len(BeforeResolution(iam_config)) :
            BeforeResolution(iam_config)[i].perms
                \subseteq ItemOrEmpty(identifier.perm_res_dict,
                                      resolve_value_from_yaml(BeforeResolution(iam_config)[i].key,
                                                              ConfigDictOf(iam_config), MaxRecursion))

\* C29: after construction from any list of statements the two indexes
\* agree: every pair (service, action) under a key of perm_res_dict has its
\* action in perm_dict[service].
C29_IndexesAgree ==
    identifier.pc = "done" =>
        \A i \in 1..Len(identifier.perm_res_dict) :
            \A pair \in identifier.perm_res_dict[i].perms :
                pair[2] \in PermDictGet(identifier.perm_dict, pair[1])

(***************************************************************************)
(* Claims about the order of the policy statements                         *)
(***************************************************************************)
\* The index with its keys in every order
Orderings(index) ==
    {[i \in 1..Len(index) |-> index[f[i]]] :
        f \in {g \in [1..Len(index) -> 1..Len(index)] :
                  \A i, j \in 1..Len(index) : i # j => g[i] # g[j]}}

\* The result of the last call with another index
ResultWith(index) ==
    analyse_resource_level_permissions(res_call.required, index, res_call.service_name,
                                       res_call.resources_info, handler_source.call,
                                       InfrastrucCodeDict, HandlerNames[1],
                                       handler_source.sc_file).result

\* The first key of an index that designates a value, <<>> when none does
FirstDesignating(index, value) ==
    LET ks == {k \in 1..Len(index) : Designates(index[k].key, res_call.service_name, value)}
    IN IF ks = {} THEN <<>> ELSE index[SetMin(ks)].key

\* Two orders of an index with the same key first for every value
SameFirstKeys(index, other) ==
    \A value \in {<<"T">>, <<"U">>, <<"B">>, <<"table">>} :
        FirstDesignating(index, value) = FirstDesignating(other, value)

====
